---- MODULE Spec2Model ----
(***************************************************************************)
(* The reactive runtime of src/bundle.js (the Svelte 3.38.3 prologue):     *)
(* the scheduler (schedule_update, flush, update), the dirty tracker       *)
(* (make_dirty), component construction, mounting and destruction.         *)
(*                                                                         *)
(* The runtime is driven by component code: instance functions, $$.update  *)
(* functions, fragment patches and lifecycle callbacks.  That code is the  *)
(* model's input: wherever the runtime hands control to it (an event       *)
(* handler, $$.update(), fragment.p(), a render callback) it performs any  *)
(* sequence of the calls the runtime offers it (a slot set that reaches    *)
(* make_dirty, a component construction, a $destroy, a throw) and then     *)
(* returns.  JavaScript is single threaded, so the position of the one     *)
(* thread of control is part of the state (task, pc, idx, stack).          *)
(***************************************************************************)
EXTENDS Integers, Sequences, FiniteSets

\* ------------------------------------------------------------------ bounds
NumComps == 2            \* components the component code may construct
NumSlots == 2            \* reactive slots (ctx indices) of each component
MaxQueue == 2            \* cap on dirty_components.length (guards only)
MaxMicrotasks == 2       \* cap on pending promise jobs (guards only)
MaxDestroyCalls == 2     \* cap on the $destroy calls component code makes (guards only)
NumQuizzes == 2          \* entries of data a quiz is drawn from (the program has 19)
NumPlayers == 1          \* Player components of a quiz block (the program has 5)
MaxFailed == 2           \* cap on the createQuiz calls made with an empty pool (guards only)
MaxFaProps == 2          \* cap on the ctx entries of Fa that differ from their first value (guards only)
MaxChildren == 5         \* children of a hydrated target
MaxHydrateCalls == 2     \* cap on the init_hydrate calls on the target (guards only)
NumBlocks == 3           \* blocks that are passed to transition_out and transition_in
MaxDepth == 2            \* cap on the nesting of group_outros calls (guards only)
MaxOnMount == 2          \* cap on $$.on_mount.length (guards only)
MaxClosures == 2         \* cap on the closures held by the groups together (guards only)
NumTypes == 2            \* event types
NumListeners == 2        \* callback functions
MaxOn == 3               \* $on calls
WideWords == 2           \* words of the dirty array of a component with many slots

\* ------------------------------------------------------ program constants
WordBits == 31           \* make_dirty: (i / 31) | 0 and 1 << (i % 31)
Sentinel == -1           \* update: $$.dirty = [-1]

Comps == 1..NumComps
Slots == 0..(NumSlots - 1)
NoComp == 0              \* current_component undefined / null

\* The fragment tree: component 1 is a root; the fragment of component c constructs
\* component c + 1 (new Child(...) in create_fragment or in p), mounts it in m()
\* and calls destroy_component on it in d().
Children(c) == {k \in Comps : k = c + 1}
IsRoot(c) == c = 1
Owner(c) == c - 1

\* Render callbacks are functions; two are the same callback iff they are the
\* same function object.  mount_component makes one closure per mounted
\* component, and a component's after_update hook is one function per component.
MountCb(c) == <<"mount", c>>
HookCb(c) == <<"after_update", c>>
Callbacks == {MountCb(c) : c \in Comps} \cup {HookCb(c) : c \in Comps}

VARIABLES
    task,               \* what the event loop runs: "none", "handler", "microtask"
    microtasks,         \* pending resolved_promise.then(flush) jobs
    pc,                 \* position of control inside flush, "idle" outside
    idx,                \* loop index i of the for loop flush is in (1-based)
    stack,              \* suspended callers of the running flush calls
    dirty_components,
    binding_callbacks,
    render_callbacks,
    flush_callbacks,
    update_scheduled,
    flushing,
    seen_callbacks,
    current_component,
    fragment,           \* $$.fragment of each component: "none" (not constructed), "live", "null"
    dirty,              \* $$.dirty of each component, a sequence of words
    on_mount,           \* $$.on_mount
    on_destroy,         \* $$.on_destroy: "array" (the array init made) or "null"
    on_destroy_array,   \* the contents of the array init made for $$.on_destroy
    after_update,       \* $$.after_update
    destroy_noop,       \* the component handle's $destroy has been replaced by noop
    \* history variables: what has been called, not read by the runtime
    marks,              \* slots of a live component passed to make_dirty and not yet to a patch
    patch_call,         \* the arguments of the fragment.p call that is running
    cb_runs,            \* invocations of each render callback in the running flush
    guard_returns,      \* a flush call returned at its reentrancy guard during the running flush
    destroy_calls,      \* calls of $destroy that component code has made
    destroy_runs,       \* invocations of each component's on_destroy callback
    d_calls,            \* calls of each component's fragment.d
    thrown,             \* where the exception that escaped flush was thrown, "none" if none was
    \* init of one component, step by step (InitSpec)
    init_pc,            \* position inside init: "none", "instance", "update", "ready"
    ready,              \* init's local variable ready
    ctx,                \* $$.ctx of the component: null, or the array instance returned
    locals,             \* the variables of the instance function, in ctx order
    slot_set,           \* the last call of the $$invalidate callback (history)
    sne_call,           \* the last call of not_equal, its arguments and result (history)
    \* the quiz's components and fragments (PatchSpec)
    Quiz,               \* the Quiz component: $$.ctx and the pending $$.dirty mask
    if_block,           \* the {#if quiz} block of Quiz's fragment
    player,             \* player0, ...: the Player components of the block
    input,              \* the Input component of the block
    Fa,                 \* a Fa component: $$.ctx, the pending mask and its fragment
    last_p,             \* the last call of a component's patch and what it did (history)
    \* a target whose claimed children init_hydrate reorders (HydrateSpec)
    hydr_target,        \* the target: childNodes (claim orders, in DOM order) and hydrate_init
    insert_calls,       \* the insertBefore calls made on target, in order (history)
    claimed,            \* target.childNodes as the first init_hydrate call found them (history)
    hydrate_calls,      \* calls of init_hydrate on target (history)
    \* the transition groups (TransSpec)
    outros,             \* the current group
    outroing,           \* the Set outroing
    entered,            \* the value outros had at each group_outros call not yet answered by a check_outros (history)
    last_call,          \* the last call of one of the four transition functions (history)
    \* $set on the component of init (SetSpec)
    skip_bound,         \* $$.skip_bound
    set_pending,        \* the slots whose statement of the running $$set is still to come
    set_call,           \* the last call of $set (history)
    \* $on and the unsubscribe functions it returned (OnSpec)
    callbacks,          \* $$.callbacks: the list of each event type
    unsubs,             \* the unsubscribe functions returned so far, one per $on call, and whether each was called (history)
    \* a component with more than 31 slots (WideSpec)
    wide                \* its $$.dirty, the slots marked since its last update (history), its entries awaiting update, and whether its fragment is not null

sched == <<dirty_components, binding_callbacks, render_callbacks, flush_callbacks,
           update_scheduled, flushing, seen_callbacks, current_component>>
comp == <<fragment, dirty, on_mount, on_destroy, on_destroy_array, after_update, destroy_noop>>
control == <<task, microtasks, pc, idx, stack>>
hist == <<marks, patch_call, cb_runs, guard_returns, destroy_calls, destroy_runs, d_calls, thrown>>
initv == <<init_pc, ready, ctx, locals, slot_set, sne_call>>
patchv == <<Quiz, if_block, player, input, Fa, last_p>>
hydrv == <<hydr_target, insert_calls, claimed, hydrate_calls>>
transv == <<outros, outroing, entered, last_call>>
setv == <<skip_bound, set_pending, set_call>>
onv == <<callbacks, unsubs>>
others == <<initv, patchv, hydrv, transv, setv, onv, wide>>
\* what the steps of init, of the quiz's fragments, of hydration and of the
\* transition functions leave alone
beside_slot == <<patchv, hydrv, transv, onv, wide>>
beside_init == <<beside_slot, setv>>
beside_patch == <<control, sched, comp, hist, initv, hydrv, transv, setv, onv, wide>>
beside_hydr == <<control, sched, comp, hist, initv, patchv, transv, setv, onv, wide>>
beside_trans == <<control, sched, comp, hist, initv, patchv, hydrv, setv, onv, wide>>
beside_on == <<control, sched, comp, hist, initv, patchv, hydrv, transv, setv, wide>>
beside_wide == <<control, sched, comp, hist, initv, patchv, hydrv, transv, setv, onv>>
vars == <<control, sched, comp, hist, others>>

NoCall == [c |-> NoComp, dirty |-> <<>>, marks |-> {}]

\* ------------------------------------------------------------- bit masks
\* Bit k of a 32-bit two's complement word (the sentinel -1 has every bit set).
BitOf(w, k) == (w \div (2 ^ k)) % 2

\* w | (1 << k)
OrBit(w, k) == IF BitOf(w, k) = 1 THEN w ELSE w + 2 ^ k

\* The slots whose bit is set in a dirty array.
BitsOf(d) == {i \in Slots : BitOf(d[(i \div WordBits) + 1], i % WordBits) = 1}

\* A make_dirty that does not clear the mask.
KeepMask(d) == d

\* $$.dirty.fill(0)
Fill0(d) == [k \in 1..Len(d) |-> 0]

\* ------------------------------------------------------------- scheduler
Top == stack[Len(stack)]
Pop == SubSeq(stack, 1, Len(stack) - 1)

\* Component code is running: an event handler (or the top-level script), or a
\* function flush has called.
InCallback == pc \in {"update", "patch", "callback"}
InClient == InCallback \/ (pc = "idle" /\ task = "handler")

\* A schedule_update whose test is inverted.
ScheduleInverted == update_scheduled

\* schedule_update: if (!update_scheduled)
ScheduleNeeded == ~update_scheduled

\* schedule_update
schedule_update ==
    IF ScheduleNeeded
      THEN /\ update_scheduled' = TRUE
           /\ microtasks' = microtasks + 1
      ELSE UNCHANGED <<update_scheduled, microtasks>>

\* A make_dirty that queues the component on every call.
AlwaysQueue(c) == TRUE

\* make_dirty: if (component.$$.dirty[0] === -1)
NeedsQueue(c) == dirty[c][1] = Sentinel

\* A make_dirty that assigns the bit (=) where the code ors it in (|=).
AssignBit(d, i) == [d EXCEPT ![(i \div WordBits) + 1] = 2 ^ (i % WordBits)]

\* make_dirty: component.$$.dirty[(i / 31) | 0] |= (1 << (i % 31)).  The array
\* grows when the word is past its end (undefined | x is x); a hole it leaves
\* reads as undefined, which is 0 in dirty[k] & m.
SetBit(d, i) ==
    LET w == (i \div WordBits) + 1
        word(k) == IF k <= Len(d) THEN d[k] ELSE 0
        n == IF w > Len(d) THEN w ELSE Len(d)
    IN  [k \in 1..n |-> IF k = w THEN OrBit(word(k), i % WordBits) ELSE word(k)]

\* make_dirty(component, i)
make_dirty(c, i) ==
    /\ IF NeedsQueue(c)
         THEN /\ dirty_components' = Append(dirty_components, c)
              /\ schedule_update
         ELSE UNCHANGED <<dirty_components, update_scheduled, microtasks>>
    /\ dirty' = [dirty EXCEPT ![c] = SetBit(IF NeedsQueue(c) THEN Fill0(@) ELSE @, i)]

\* A flush without its reentrancy guard.
NoFlushGuard == FALSE

\* flush: if (flushing) return
FlushGuard == flushing

\* A call of flush() by a caller that sets current_component to cc when flush
\* has returned (restore: init, line 392) or leaves it alone (the promise job):
\* the guard, flushing = true, and control at the head of the first for loop.
flush_call(restore, cc) ==
    IF FlushGuard
      THEN /\ guard_returns' = (guard_returns \/ pc # "idle")
           /\ UNCHANGED <<pc, idx, stack, flushing>>
      ELSE /\ flushing' = TRUE
           /\ stack' = Append(stack, [pc |-> pc, idx |-> idx, restore |-> restore, cc |-> cc])
           /\ pc' = "components"
           /\ idx' = 1
           /\ UNCHANGED guard_returns

\* A flush that does not consult seen_callbacks.
NeverSeen(cb) == FALSE

\* flush: if (!seen_callbacks.has(callback))
AlreadySeen(cb) == cb \in seen_callbacks

\* A first for loop that stops after one component.
LoopStopsAfterFirst == idx > Len(dirty_components) \/ idx > 1

\* flush: the first for loop is over: !(i < dirty_components.length)
ComponentsLoopDone == idx > Len(dirty_components)

\* A flush whose do loop makes a single pass.
SinglePass == FALSE

\* A flush whose do loop never ends.
EndlessPasses == TRUE

\* flush: while (dirty_components.length) at the foot of the do loop
MorePasses == Len(dirty_components) > 0

\* ---------------------------------------------------------- event loop
\* An event handler (or the script's top level) starts: only when the microtask
\* queue is empty, since the browser drains it after every task.
StartHandler ==
    /\ task = "none"
    /\ microtasks = 0
    /\ task' = "handler"
    /\ UNCHANGED <<microtasks, pc, idx, stack, sched, comp, hist>>
    /\ UNCHANGED others

EndHandler ==
    /\ task = "handler"
    /\ pc = "idle"
    /\ task' = "none"
    /\ UNCHANGED <<microtasks, pc, idx, stack, sched, comp, hist>>
    /\ UNCHANGED others

\* The promise job of schedule_update runs: resolved_promise.then(flush).
RunMicrotask ==
    /\ task = "none"
    /\ microtasks > 0
    /\ microtasks' = microtasks - 1
    /\ task' = IF FlushGuard THEN "none" ELSE "microtask"
    /\ flush_call(FALSE, NoComp)
    /\ UNCHANGED <<dirty_components, binding_callbacks, render_callbacks, flush_callbacks,
                   update_scheduled, seen_callbacks, current_component, comp,
                   marks, patch_call, cb_runs, destroy_calls, destroy_runs, d_calls, thrown>>
    /\ UNCHANGED others

\* ---------------------------------------------------------------- flush
\* An update that does not test the fragment.
UpdateAlways(c) == TRUE

\* update: if ($$.fragment !== null)
UpdateGuard(c) == fragment[c] # "null"

\* for (i < dirty_components.length): set_current_component(component);
\* update(component.$$) up to the call of $$.update(), or past it when the
\* component's fragment is null.
FlushUpdate ==
    /\ pc = "components"
    /\ ~ComponentsLoopDone
    /\ LET c == dirty_components[idx] IN
         /\ current_component' = c
         /\ IF UpdateGuard(c)
              THEN pc' = "update" /\ idx' = idx
              ELSE pc' = "components" /\ idx' = idx + 1
    /\ UNCHANGED <<task, microtasks, stack, dirty_components, binding_callbacks,
                   render_callbacks, flush_callbacks, update_scheduled, flushing,
                   seen_callbacks, comp, hist>>
    /\ UNCHANGED others

\* $$.after_update.forEach(add_render_callback)
AddAfterUpdate(rcs, c) == rcs \o after_update[c]

\* update: $$.update() has returned: run_all(before_update) (never registered),
\* dirty = $$.dirty, $$.dirty = [-1], and the call of fragment.p(ctx, dirty); when
\* $$.update() destroyed the component, p is not called and update finishes.
UpdateReturn ==
    /\ pc = "update"
    /\ LET c == dirty_components[idx] IN
         /\ dirty' = [dirty EXCEPT ![c] = <<Sentinel>>]
         /\ IF fragment[c] = "live"
              THEN /\ pc' = "patch"
                   /\ idx' = idx
                   /\ patch_call' = [c |-> c, dirty |-> dirty[c], marks |-> marks[c]]
                   /\ marks' = [marks EXCEPT ![c] = {}]
                   /\ UNCHANGED render_callbacks
              ELSE /\ pc' = "components"
                   /\ idx' = idx + 1
                   /\ render_callbacks' = AddAfterUpdate(render_callbacks, c)
                   /\ UNCHANGED <<patch_call, marks>>
    /\ UNCHANGED <<task, microtasks, stack, dirty_components, binding_callbacks,
                   flush_callbacks, update_scheduled, flushing, seen_callbacks,
                   current_component, fragment, on_mount, on_destroy, on_destroy_array,
                   after_update, destroy_noop, cb_runs, guard_returns, destroy_calls,
                   destroy_runs, d_calls, thrown>>
    /\ UNCHANGED others

\* update: fragment.p has returned: after_update.forEach(add_render_callback);
\* the for loop goes on (i += 1).
PatchReturn ==
    /\ pc = "patch"
    /\ LET c == dirty_components[idx] IN
         render_callbacks' = AddAfterUpdate(render_callbacks, c)
    /\ pc' = "components"
    /\ idx' = idx + 1
    /\ patch_call' = NoCall
    /\ UNCHANGED <<task, microtasks, stack, dirty_components, binding_callbacks,
                   flush_callbacks, update_scheduled, flushing, seen_callbacks,
                   current_component, comp, marks, cb_runs, guard_returns,
                   destroy_calls, destroy_runs, d_calls, thrown>>
    /\ UNCHANGED others

\* The first for loop is over: set_current_component(null),
\* dirty_components.length = 0, the binding callbacks are popped and called
\* (nothing in the bundle pushes one), and control is at the head of the
\* render-callback loop.
FlushComponentsDone ==
    /\ pc = "components"
    /\ ComponentsLoopDone
    /\ current_component' = NoComp
    /\ dirty_components' = <<>>
    /\ binding_callbacks' = <<>>
    /\ pc' = "render"
    /\ idx' = 1
    /\ UNCHANGED <<task, microtasks, stack, render_callbacks, flush_callbacks,
                   update_scheduled, flushing, seen_callbacks, comp, hist>>
    /\ UNCHANGED others

\* The closure mount_component queued, after its on_mount.map(run): the functions
\* the on_mount callbacks returned (ret: whether the callback returned one) are
\* pushed on the on_destroy array the closure captured when the component was
\* mounted, and $$.on_mount = [].
MountClosureEnd(c, ret) ==
    /\ on_destroy_array' =
          [on_destroy_array EXCEPT ![c] = IF ret /\ on_mount[c] # <<>> THEN Append(@, c) ELSE @]
    /\ on_mount' = [on_mount EXCEPT ![c] = <<>>]

\* for (i < render_callbacks.length): a callback already in seen_callbacks is
\* skipped; another is added to seen_callbacks and called.  A mount closure of a
\* component without on_mount callbacks runs no component code and is done here.
FlushRender ==
    /\ pc = "render"
    /\ idx <= Len(render_callbacks)
    /\ LET cb == render_callbacks[idx] IN
         IF AlreadySeen(cb)
           THEN /\ idx' = idx + 1
                /\ pc' = "render"
                /\ UNCHANGED <<seen_callbacks, cb_runs, on_mount, on_destroy_array>>
           ELSE /\ seen_callbacks' = seen_callbacks \cup {cb}
                /\ cb_runs' = [cb_runs EXCEPT ![cb] = @ + 1]
                /\ IF cb[1] = "mount" /\ on_mount[cb[2]] = <<>>
                     THEN /\ MountClosureEnd(cb[2], FALSE)
                          /\ idx' = idx + 1
                          /\ pc' = "render"
                     ELSE /\ pc' = "callback"
                          /\ idx' = idx
                          /\ UNCHANGED <<on_mount, on_destroy_array>>
    /\ UNCHANGED <<task, microtasks, stack, dirty_components, binding_callbacks,
                   render_callbacks, flush_callbacks, update_scheduled, flushing,
                   current_component, fragment, dirty, on_destroy, after_update,
                   destroy_noop, marks, patch_call, guard_returns, destroy_calls,
                   destroy_runs, d_calls, thrown>>
    /\ UNCHANGED others

\* The render callback has returned; ret: whether the on_mount callback a mount
\* closure ran returned a function.
CallbackReturn(ret) ==
    /\ pc = "callback"
    /\ LET cb == render_callbacks[idx] IN
         IF cb[1] = "mount"
           THEN MountClosureEnd(cb[2], ret)
           ELSE ret /\ UNCHANGED <<on_mount, on_destroy_array>>
    /\ pc' = "render"
    /\ idx' = idx + 1
    /\ UNCHANGED <<task, microtasks, stack, sched, fragment, dirty, on_destroy,
                   after_update, destroy_noop, hist>>
    /\ UNCHANGED others

\* The render-callback loop is over: render_callbacks.length = 0 and the test of
\* the do loop: another pass, or the flush callbacks are popped and called
\* (nothing in the bundle pushes one), update_scheduled = false, flushing = false,
\* seen_callbacks.clear(), and flush returns to its caller.
FlushRenderDone ==
    /\ pc = "render"
    /\ idx > Len(render_callbacks)
    /\ render_callbacks' = <<>>
    /\ IF MorePasses
         THEN /\ pc' = "components"
              /\ idx' = 1
              /\ UNCHANGED <<task, stack, flush_callbacks, update_scheduled, flushing,
                             seen_callbacks, current_component, cb_runs, guard_returns>>
         ELSE /\ flush_callbacks' = <<>>
              /\ update_scheduled' = FALSE
              /\ flushing' = FALSE
              /\ seen_callbacks' = {}
              /\ cb_runs' = [cb \in Callbacks |-> 0]
              /\ guard_returns' = FALSE
              /\ pc' = Top.pc
              /\ idx' = Top.idx
              /\ stack' = Pop
              /\ current_component' = IF Top.restore THEN Top.cc ELSE current_component
              /\ task' = IF Top.pc = "idle" /\ task = "microtask" THEN "none" ELSE task
    /\ UNCHANGED <<microtasks, dirty_components, binding_callbacks, comp,
                   marks, patch_call, destroy_calls, destroy_runs, d_calls, thrown>>
    /\ UNCHANGED others

\* ------------------------------------------------------ component code
\* The $$invalidate callback of init, called on a constructed component (ready is
\* true from line 370 on) with a value that not_equal reports as changed: the
\* call reaches make_dirty(component, i).  A destroyed component's ctx is [],
\* which is truthy, so the call reaches make_dirty for it too.
Invalidate(c, i) ==
    /\ InClient
    /\ fragment[c] # "none"
    /\ NeedsQueue(c) => Len(dirty_components) < MaxQueue
    /\ (NeedsQueue(c) /\ ScheduleNeeded) => microtasks < MaxMicrotasks
    /\ make_dirty(c, i)
    /\ marks' = [marks EXCEPT ![c] = IF fragment[c] = "live" THEN @ \cup {i} ELSE @]
    /\ UNCHANGED <<task, pc, idx, stack, binding_callbacks, render_callbacks,
                   flush_callbacks, flushing, seen_callbacks, current_component,
                   fragment, on_mount, on_destroy, on_destroy_array, after_update,
                   destroy_noop, patch_call, cb_runs, guard_returns, destroy_calls,
                   destroy_runs, d_calls, thrown>>
    /\ UNCHANGED others

\* A mount_component that queues nothing.
mount_later(rcs, c, au) == rcs

\* mount_component: add_render_callback(() => {...}) and
\* after_update.forEach(add_render_callback)
mount_component(rcs, c, au) == Append(rcs, MountCb(c)) \o au

\* new Component(options): init.  The instance function registers an onMount
\* callback (om) and an after_update hook (au) or not.  A component other than
\* the root is constructed by the fragment of its live owner.  The component
\* is mounted by init when options.target is set (target), and otherwise by
\* the m() of the fragment that constructed it, later in the same synchronous
\* call chain (a root without a target is not mounted).  With a target init
\* then calls flush() and, when flush has returned, sets current_component
\* back to the parent component.
Construct(c, om, au, target) ==
    /\ InClient
    /\ fragment[c] = "none"
    /\ (IF IsRoot(c) THEN TRUE ELSE fragment[Owner(c)] = "live")
    /\ fragment' = [fragment EXCEPT ![c] = "live"]
    /\ dirty' = [dirty EXCEPT ![c] = <<Sentinel>>]
    /\ on_mount' = [on_mount EXCEPT ![c] = IF om THEN <<c>> ELSE <<>>]
    /\ on_destroy' = [on_destroy EXCEPT ![c] = "array"]
    /\ on_destroy_array' = [on_destroy_array EXCEPT ![c] = <<>>]
    /\ after_update' = [after_update EXCEPT ![c] = IF au THEN <<HookCb(c)>> ELSE <<>>]
    /\ render_callbacks' =
          IF target \/ ~IsRoot(c)
            THEN mount_component(render_callbacks, c, IF au THEN <<HookCb(c)>> ELSE <<>>)
            ELSE render_callbacks
    /\ IF target
         THEN flush_call(TRUE, current_component)
         ELSE UNCHANGED <<pc, idx, stack, flushing, guard_returns>>
    /\ UNCHANGED <<task, microtasks, dirty_components, binding_callbacks,
                   flush_callbacks, update_scheduled, seen_callbacks,
                   current_component, destroy_noop, marks, patch_call, cb_runs,
                   destroy_calls, destroy_runs, d_calls, thrown>>
    /\ UNCHANGED others

\* An event handler of the root sets one of the root's slots.
HandlerSet(i) ==
    /\ pc = "idle"
    /\ Invalidate(1, i)

\* The patch of c's owner calls c.$set with a prop whose value changed
\* (create_if_block$1.p: player0.$set(player0_changes), input.$set(input_changes)).
ChildSet(c, i) ==
    /\ ~IsRoot(c)
    /\ pc = "patch"
    /\ patch_call.c = Owner(c)
    /\ Invalidate(c, i)

\* An event handler sets a slot of a component (handleInputEnter and
\* handleInputChance of Quiz, input_input_handler of Input).
HandlerMark(c, i) ==
    /\ pc = "idle"
    /\ Invalidate(c, i)

\* The onMount callback of c, run by c's mount closure, sets a slot of c
\* (instance$1: onMount(() => { createQuiz(); })).
MountSet(c, i) ==
    /\ pc = "callback"
    /\ render_callbacks[idx] = MountCb(c)
    /\ Invalidate(c, i)

\* mount_component(c): fragment.m() mounts the component the fragment
\* constructed, then c's closure is queued.
RECURSIVE mount_tree(_, _)
mount_tree(rcs, c) ==
    IF c \in Comps
      THEN mount_component(mount_tree(rcs, c + 1), c, <<>>)
      ELSE rcs

\* new App({ target }): init of the root, whose create_fragment constructs the
\* child component (App constructs Layout, Layout constructs Quiz), each by an
\* init without target; om tells which instance functions call onMount.  Then
\* mount_component(root), flush(), and current_component is set back.
new_App(om) ==
    /\ InClient
    /\ \A c \in Comps : fragment[c] = "none"
    /\ fragment' = [c \in Comps |-> "live"]
    /\ dirty' = [c \in Comps |-> <<Sentinel>>]
    /\ on_mount' = [c \in Comps |-> IF om[c] THEN <<c>> ELSE <<>>]
    /\ on_destroy' = [c \in Comps |-> "array"]
    /\ on_destroy_array' = [c \in Comps |-> <<>>]
    /\ after_update' = [c \in Comps |-> <<>>]
    /\ render_callbacks' = mount_tree(render_callbacks, 1)
    /\ flush_call(TRUE, current_component)
    /\ UNCHANGED <<task, microtasks, dirty_components, binding_callbacks,
                   flush_callbacks, update_scheduled, seen_callbacks,
                   current_component, destroy_noop, marks, patch_call, cb_runs,
                   destroy_calls, destroy_runs, d_calls, thrown>>
    /\ UNCHANGED others

\* destroy_component: if ($$.fragment !== null)
DestroyGuard(c) == fragment[c] # "null"

\* The components destroy_component(c) is called on when it is called on c: c,
\* and through fragment.d the constructed components the fragment owns.
RECURSIVE Visited(_)
Visited(c) ==
    IF DestroyGuard(c)
      THEN {c} \cup UNION {Visited(k) : k \in {j \in Children(c) : fragment[j] # "none"}}
      ELSE {c}

\* An on_destroy callback of component k calls k.$destroy() while run_all runs
\* it (r: the component whose callback does so, NoComp for none): the handle's
\* $destroy is still the real one (line 400 comes after destroy_component has
\* returned) and $$.fragment is not null yet (line 321 comes after run_all).
Reenters(k, r) == k = r /\ on_destroy_array[k] # <<>> /\ ~destroy_noop[k]

\* destroy_component(component, detaching): for the component and, through its
\* fragment's d, for the components below it: run_all($$.on_destroy),
\* fragment.d(detaching), $$.on_destroy = $$.fragment = null.  The nested call
\* an on_destroy callback makes passes the fragment test too: it runs the on_destroy
\* callbacks again, calls d and sets the fragment to null, so that the outer
\* call finishes run_all and skips d ($$.fragment && ...).
destroy_component(c, r) ==
    LET live == {k \in Visited(c) : DestroyGuard(k)}
    IN  /\ destroy_runs' =
              [k \in Comps |->
                  IF k \in live
                    THEN destroy_runs[k]
                           + Len(on_destroy_array[k]) * (IF Reenters(k, r) THEN 2 ELSE 1)
                    ELSE destroy_runs[k]]
        /\ d_calls' = [k \in Comps |-> IF k \in live THEN d_calls[k] + 1 ELSE d_calls[k]]
        /\ fragment' = [k \in Comps |-> IF k \in live THEN "null" ELSE fragment[k]]
        /\ on_destroy' = [k \in Comps |-> IF k \in live THEN "null" ELSE on_destroy[k]]
        /\ marks' = [k \in Comps |-> IF k \in live THEN {} ELSE marks[k]]
        /\ destroy_noop' =
              [k \in Comps |-> destroy_noop[k] \/ k = c \/ (k \in live /\ Reenters(k, r))]

\* component.$destroy(): destroy_component(this, 1); this.$destroy = noop.
\* Once replaced by noop the call does nothing.  r: the component destroyed
\* by this call whose on_destroy callback calls its $destroy() in turn.
SvelteComponent_destroy(c, r) ==
    /\ InClient
    /\ fragment[c] # "none"
    /\ r # NoComp => (~destroy_noop[c] /\ DestroyGuard(r) /\ r \in Visited(c) /\ Reenters(r, r))
    /\ destroy_calls + (IF r = NoComp THEN 1 ELSE 2) <= MaxDestroyCalls
    /\ destroy_calls' = destroy_calls + (IF r = NoComp THEN 1 ELSE 2)
    /\ IF destroy_noop[c]
         THEN UNCHANGED <<destroy_runs, d_calls, fragment, on_destroy, destroy_noop, marks>>
         ELSE destroy_component(c, r)
    /\ UNCHANGED <<control, sched, dirty, on_mount, on_destroy_array, after_update,
                   patch_call, cb_runs, guard_returns, thrown>>
    /\ UNCHANGED others

\* A flush that resets the flag in a finally block.
FlushingCleared == FALSE

\* flush sets flushing = false on its last lines only; it has no try or finally,
\* so an exception leaves the flag as it is.
flushing_after_throw == flushing

\* Component code that flush called throws: the exception leaves flush (and the
\* init or promise job that called it) and ends the running task; flush has no
\* try or finally, so nothing it wrote is reset.
Throw ==
    /\ InCallback
    /\ pc' = "idle"
    /\ stack' = <<>>
    /\ task' = "none"
    /\ thrown' = pc
    /\ patch_call' = NoCall
    /\ flushing' = flushing_after_throw
    /\ UNCHANGED <<microtasks, idx, dirty_components, binding_callbacks,
                   render_callbacks, flush_callbacks, update_scheduled,
                   seen_callbacks, current_component, comp, marks, cb_runs,
                   guard_returns, destroy_calls, destroy_runs, d_calls>>
    /\ UNCHANGED others

\* get_current_component: if (!current_component) throw new Error(...)
NoCurrentComponent == current_component = NoComp

\* Component code calls onMount(fn) after the init that constructed its
\* component has returned: from an event handler, or from a function flush
\* has called.  get_current_component throws when current_component is null
\* or undefined, and the exception ends the handler, or leaves flush as any
\* other exception does; otherwise fn is pushed on the on_mount array of the
\* component current_component names.
onMount ==
    /\ InClient
    /\ IF NoCurrentComponent
         THEN /\ thrown' = "onMount"
              /\ pc' = "idle"
              /\ stack' = <<>>
              /\ task' = "none"
              /\ patch_call' = NoCall
              /\ flushing' = flushing_after_throw
              /\ UNCHANGED on_mount
         ELSE /\ Len(on_mount[current_component]) < MaxOnMount
              /\ on_mount' = [on_mount EXCEPT ![current_component] = Append(@, current_component)]
              /\ UNCHANGED <<thrown, pc, stack, task, patch_call, flushing>>
    /\ UNCHANGED <<microtasks, idx, dirty_components, binding_callbacks,
                   render_callbacks, flush_callbacks, update_scheduled,
                   seen_callbacks, current_component, fragment, dirty, on_destroy,
                   on_destroy_array, after_update, destroy_noop, marks, cb_runs,
                   guard_returns, destroy_calls, destroy_runs, d_calls>>
    /\ UNCHANGED others

\* ------------------------------------------------------ JavaScript values
\* A value: its typeof tag t ("null" is the tag of null, whose typeof is
\* "object"), a payload v (a number's value, a boolean as 0 / 1, a string's
\* index in Strings, the identity of an object or function) and nan for NaN.
Val(t, v, nan) == [t |-> t, v |-> v, nan |-> nan]
Undefined == Val("undefined", 0, FALSE)
Null == Val("null", 0, FALSE)
JsFalse == Val("boolean", 0, FALSE)
NaN == Val("number", 0, TRUE)
Num(n) == Val("number", n, FALSE)
EmptyString == Val("string", 0, FALSE)
Obj(k) == Val("object", k, FALSE)
Fn(k) == Val("function", k, FALSE)
Values == {Undefined, Null, JsFalse, NaN, Num(0), Num(1), EmptyString, Obj(1), Obj(2), Fn(1)}

\* typeof a
TypeOf(a) == IF a.t = "null" THEN "object" ELSE a.t

\* ToBoolean(a)
Truthy(a) ==
    CASE a.t \in {"undefined", "null"} -> FALSE
      [] a.t = "boolean" -> a.v = 1
      [] a.t = "number" -> ~a.nan /\ a.v # 0
      [] a.t = "string" -> a.v # 0
      [] OTHER -> TRUE

\* a === b
StrictEq(a, b) ==
    /\ a.t = b.t
    /\ IF a.t = "number" THEN ~a.nan /\ ~b.nan /\ a.v = b.v ELSE a.v = b.v

\* ToNumber of a primitive ("" is the only string of Values: 0)
ToNumber(a) ==
    CASE a.t = "undefined" -> NaN
      [] a.t = "null" -> Num(0)
      [] a.t = "boolean" -> Num(a.v)
      [] a.t = "string" -> Num(0)
      [] OTHER -> a

\* a == b: same type as ===; null == undefined; a primitive against a primitive
\* of another type by ToNumber; an object or function against a primitive by its
\* string "[object Object]" or source text, which is no value of Values.
LooseEq(a, b) ==
    CASE a.t = b.t -> StrictEq(a, b)
      [] a.t \in {"undefined", "null"} /\ b.t \in {"undefined", "null"} -> TRUE
      [] a.t \in {"undefined", "null"} \/ b.t \in {"undefined", "null"} -> FALSE
      [] a.t \in {"object", "function"} \/ b.t \in {"object", "function"} -> FALSE
      [] OTHER -> StrictEq(ToNumber(a), ToNumber(b))

\* A dirty tracker that compares with !== alone.
strict_not_equal(a, b) == ~StrictEq(a, b)

\* safe_not_equal: a != a ? b == b
\*     : a !== b || ((a && typeof a === 'object') || typeof a === 'function')
safe_not_equal(a, b) ==
    IF ~LooseEq(a, a)
      THEN LooseEq(b, b)
      ELSE \/ ~StrictEq(a, b)
           \/ (Truthy(a) /\ TypeOf(a) = "object")
           \/ TypeOf(a) = "function"

\* ---------------------------------------------------------------- init
\* init of component InitComp, step by step: instance() runs while $$.ctx is
\* still null, then $$.ctx is the array instance returned, $$.update() runs,
\* and ready = true.
InitComp == 1

NullCtx == [isnull |-> TRUE, v |-> <<>>]
NoSet == [i |-> 0, v |-> Undefined, k |-> 0, skip |-> FALSE]
NoSne == [called |-> FALSE, a |-> Undefined, b |-> Undefined, r |-> FALSE]

InitIdle ==
    /\ init_pc = "none"
    /\ ready = FALSE
    /\ ctx = NullCtx
    /\ locals = [i \in Slots |-> Undefined]
    /\ slot_set = NoSet
    /\ sne_call = NoSne

\* Slot sets before line 370 reach make_dirty.
AlwaysReady == TRUE

\* $$invalidate: if (ready)
ReadyGuard == ready

\* init up to the call of instance: $$ is made with ctx: null, dirty: [-1];
\* let ready = false.
InitBegin ==
    /\ init_pc = "none"
    /\ init_pc' = "instance"
    /\ ready' = FALSE
    /\ ctx' = NullCtx
    /\ UNCHANGED <<locals, slot_set, sne_call, control, sched, comp, hist, beside_init>>

\* $$invalidate(i, x = v): the variable of the instance function is assigned;
\* in the callback (which reads $$.skip_bound before it calls a binding), if ($$.ctx && not_equal($$.ctx[i],
\* $$.ctx[i] = value)) writes ctx[i] whenever $$.ctx is not null, and calls
\* make_dirty when not_equal reports a change and ready is set.
invalidate_callback(i, v) ==
    /\ locals' = [locals EXCEPT ![i] = v]
    /\ slot_set' = [i |-> i, v |-> v, k |-> 1 - slot_set.k, skip |-> skip_bound]
    /\ IF ctx.isnull
         THEN UNCHANGED <<ctx, sne_call, dirty, dirty_components, update_scheduled, microtasks>>
         ELSE /\ ctx' = [ctx EXCEPT !.v[i] = v]
              /\ sne_call' = [called |-> TRUE, a |-> ctx.v[i], b |-> v,
                              r |-> safe_not_equal(ctx.v[i], v)]
              /\ IF safe_not_equal(ctx.v[i], v) /\ ReadyGuard
                   THEN make_dirty(InitComp, i)
                   ELSE UNCHANGED <<dirty, dirty_components, update_scheduled, microtasks>>
    /\ UNCHANGED <<init_pc, ready, task, pc, idx, stack, binding_callbacks,
                   render_callbacks, flush_callbacks, flushing, seen_callbacks,
                   current_component, fragment, on_mount, on_destroy,
                   on_destroy_array, after_update, destroy_noop, hist, beside_slot>>

\* A statement of the instance function or of a handler of the component,
\* outside $$set: $$invalidate(i, x = v).
invalidate(i, v) ==
    /\ init_pc # "none"
    /\ ~skip_bound
    /\ invalidate_callback(i, v)
    /\ UNCHANGED setv

\* instance has returned: $$.ctx = the array of its variables; $$.update() starts.
InstanceReturn ==
    /\ init_pc = "instance"
    /\ init_pc' = "update"
    /\ ctx' = [isnull |-> FALSE, v |-> locals]
    /\ UNCHANGED <<ready, locals, slot_set, sne_call, control, sched, comp, hist, beside_init>>

\* $$.update() has returned: ready = true.
SetReady ==
    /\ init_pc = "update"
    /\ init_pc' = "ready"
    /\ ready' = TRUE
    /\ UNCHANGED <<ctx, locals, slot_set, sne_call, control, sched, comp, hist, beside_init>>

\* ---------------------------------------------------------------- $set
\* $set($$props) on the component of init.  $$props holds, for each prop of the
\* component, a value or nothing; the component's $$set has one statement
\* if ("x" in $$props) $$invalidate(i, x = $$props.x) for each prop, in ctx
\* order (instance$4).
Absent == Val("absent", 0, FALSE)
SetValues == {Undefined, Obj(1)}
PropsObjects == [Slots -> SetValues \cup {Absent}]
NoProps == [i \in Slots |-> Absent]
NoSetCall == [called |-> FALSE, has_set |-> FALSE, props |-> NoProps, k |-> 0]

SetIdle ==
    /\ skip_bound = FALSE
    /\ set_pending = <<>>
    /\ set_call = NoSetCall

\* "x" in $$props, for the prop of slot i
In(i, props) == props[i] # Absent

\* is_empty(obj): Object.keys(obj).length === 0
is_empty(props) == \A i \in Slots : ~In(i, props)

\* The slots $$props names, in the order of $$set's statements.
Supplied(props) ==
    LET S == {i \in Slots : In(i, props)}
        n == Cardinality(S)
    IN  CHOOSE s \in [1..n -> S] : \A a, b \in 1..n : a < b => s[a] < s[b]

\* A $set that does not look at $$props.
SetUnguarded(has_set, props) == has_set

\* $set: if (this.$$set && !is_empty($$props))
SetGuard(has_set, props) == has_set /\ ~is_empty(props)

\* $set($$props), up to the call of $$set: $$.skip_bound = true.  has_set
\* tells whether the component's instance function assigned $$self.$$set.
SvelteComponent_set(has_set, props) ==
    /\ init_pc = "ready"
    /\ ~skip_bound
    /\ set_call' = [called |-> TRUE, has_set |-> has_set, props |-> props,
                    k |-> 1 - set_call.k]
    /\ IF SetGuard(has_set, props)
         THEN /\ skip_bound' = TRUE
              /\ set_pending' = Supplied(props)
         ELSE UNCHANGED <<skip_bound, set_pending>>
    /\ UNCHANGED <<initv, control, sched, comp, hist, beside_slot>>

\* The next statement of $$set whose prop is in $$props.
PropStatement ==
    /\ skip_bound
    /\ set_pending # <<>>
    /\ invalidate_callback(Head(set_pending), set_call.props[Head(set_pending)])
    /\ set_pending' = Tail(set_pending)
    /\ UNCHANGED <<skip_bound, set_call>>

\* $$set has returned: $$.skip_bound = false.
SetReturn ==
    /\ skip_bound
    /\ set_pending = <<>>
    /\ skip_bound' = FALSE
    /\ UNCHANGED <<set_pending, set_call, initv, control, sched, comp, hist, beside_slot>>

\* ------------------------------------------------------------------ $on
\* $on(type, callback) and the functions it returns.  callbacks[type] is the
\* array of the type; an unsubscribe function closes over that array and over
\* the callback.
Types == 1..NumTypes
Listeners == 1..NumListeners

OnIdle ==
    /\ callbacks = [type \in Types |-> <<>>]
    /\ unsubs = <<>>

\* callbacks.indexOf(callback): the first index (from 1), 0 for -1
indexOf(list, callback) ==
    IF \E k \in 1..Len(list) : list[k] = callback
      THEN CHOOSE k \in 1..Len(list) :
               /\ list[k] = callback
               /\ \A j \in 1..(k - 1) : list[j] # callback
      ELSE 0

\* list.splice(index, 1)
splice(list, index) == [k \in 1..(Len(list) - 1) |-> IF k < index THEN list[k] ELSE list[k + 1]]

\* $on(type, callback)
SvelteComponent_on(type, callback) ==
    /\ Len(unsubs) < MaxOn
    /\ callbacks' = [callbacks EXCEPT ![type] = Append(@, callback)]
    /\ unsubs' = Append(unsubs, [type |-> type, callback |-> callback, called |-> FALSE])
    /\ UNCHANGED beside_on

\* A call of the function the n-th $on call returned.
Unsubscribe(n) ==
    /\ n \in 1..Len(unsubs)
    /\ LET type == unsubs[n].type
           index == indexOf(callbacks[type], unsubs[n].callback)
       IN  IF index # 0
             THEN callbacks' = [callbacks EXCEPT ![type] = splice(@, index)]
             ELSE UNCHANGED callbacks
    /\ unsubs' = [unsubs EXCEPT ![n].called = TRUE]
    /\ UNCHANGED beside_on

\* ----------------------------------------------------------- wide masks
\* make_dirty and update on one component whose slots span WideWords words of
\* $$.dirty: the first two slots and the last slot of every word.  A handler
\* marks one slot, or every slot of a word; flush reaches the component's
\* entry; the component is destroyed.
WideSlots == UNION {{WordBits * w, WordBits * w + 1, WordBits * w + WordBits - 1} : w \in 0..(WideWords - 1)}

WideIdle == wide = [dirty |-> <<Sentinel>>, marks |-> {}, queued |-> 0, live |-> TRUE]

\* make_dirty(component, i) on the wide component
wide_make_dirty(c, i) ==
    [c EXCEPT !.dirty = SetBit(IF c.dirty[1] = Sentinel THEN Fill0(c.dirty) ELSE c.dirty, i),
              !.queued = IF c.dirty[1] = Sentinel THEN @ + 1 ELSE @,
              !.marks = @ \cup {i}]

\* $$invalidate of the slots lo .. hi, in order
RECURSIVE mark_range(_, _, _)
mark_range(c, lo, hi) ==
    IF lo > hi THEN c ELSE mark_range(wide_make_dirty(c, lo), lo + 1, hi)

WideMark(i) ==
    /\ wide' = wide_make_dirty(wide, i)
    /\ UNCHANGED beside_wide

WideMarkWord(w) ==
    /\ wide' = mark_range(wide, WordBits * w, WordBits * w + WordBits - 1)
    /\ UNCHANGED beside_wide

\* flush reaches an entry of the component: update resets the mask, unless the
\* fragment is null.
WideUpdate ==
    /\ wide.queued > 0
    /\ wide' = IF wide.live
                THEN [wide EXCEPT !.dirty = <<Sentinel>>, !.marks = {}, !.queued = @ - 1]
                ELSE [wide EXCEPT !.queued = @ - 1]
    /\ UNCHANGED beside_wide

\* destroy_component: $$.fragment = null
WideDestroy ==
    /\ wide.live
    /\ wide' = [wide EXCEPT !.live = FALSE]
    /\ UNCHANGED beside_wide

\* ------------------------------------------------------------ fragments
\* The fragments of the quiz (Quiz, its {#if quiz} block, Player, Input) and
\* their patch functions p(ctx, dirty), with the part of the DOM they write.
\* A component is its $$.ctx, its pending mask (0 stands for the sentinel [-1]
\* of a component that is not queued) and the variables and nodes of its
\* fragment.  The component code of Quiz is the model's input, one $$invalidate
\* statement at a time.
Quizzes == 1..NumQuizzes
Players == 1..NumPlayers
NoQuiz == 0              \* let quiz; data[undefined]

\* A string or undefined, and x + ""
Str(s) == [t |-> "string", s |-> s]
Undef == [t |-> "undefined", s |-> ""]
ToString(x) == IF x.t = "undefined" THEN "undefined" ELSE x.s

\* String.prototype.toLowerCase on the strings of the program
toLowerCase(s) ==
    CASE s = "TOP" -> "top"
      [] s = "JG" -> "jg"
      [] s = "MID" -> "mid"
      [] s = "BOT" -> "bot"
      [] s = "SPT" -> "spt"
      [] s = "TSM" -> "tsm"
      [] s = "Team Solo Mid" -> "team solo mid"
      [] s = "TL" -> "tl"
      [] s = "Team Liquid" -> "team liquid"
      [] s = "Dyrus" -> "dyrus"
      [] s = "Hauntzer" -> "hauntzer"
      [] s = "Impact" -> "impact"
      [] s = "TheOddOne" -> "theoddone"
      [] s = "Svenskeren" -> "svenskeren"
      [] s = "Xmithie" -> "xmithie"
      [] OTHER -> s

positionNameMap(k) ==
    CASE k = "top" -> Str("Top")
      [] k = "jg" -> Str("Jungle")
      [] k = "mid" -> Str("Mid")
      [] k = "bot" -> Str("Bot")
      [] k = "spt" -> Str("Support")
      [] OTHER -> Undef

\* players.TOP.Dyrus, ...: k is the identity of the object
players(name) ==
    CASE name = "Dyrus" -> [k |-> 1, ign |-> Str("Dyrus"), position |-> Str("TOP"), nationality |-> Str("US")]
      [] name = "Hauntzer" -> [k |-> 2, ign |-> Str("Hauntzer"), position |-> Str("TOP"), nationality |-> Str("US")]
      [] name = "Impact" -> [k |-> 3, ign |-> Str("Impact"), position |-> Str("TOP"), nationality |-> Str("KR")]
      [] name = "TheOddOne" -> [k |-> 4, ign |-> Str("TheOddOne"), position |-> Str("JG"), nationality |-> Str("CA")]
      [] name = "Svenskeren" -> [k |-> 5, ign |-> Str("Svenskeren"), position |-> Str("JG"), nationality |-> Str("DK")]
      [] OTHER -> [k |-> 6, ign |-> Str("Xmithie"), position |-> Str("JG"), nationality |-> Str("PH")]

\* teams.TSM, teams.TL
teams(name) ==
    IF name = "TSM"
      THEN [name |-> <<"Team Solo Mid">>, abbr |-> Str("TSM")]
      ELSE [name |-> <<"Team Liquid", "liquid">>, abbr |-> Str("TL")]

\* Entries 0, 4 and 8 of data; players in the order TOP, JG.
data(n) ==
    CASE n = 1 -> [team |-> teams("TSM"), year |-> Str("2013"), split |-> Str("spring"),
                   players |-> <<players("Dyrus"), players("TheOddOne")>>]
      [] n = 2 -> [team |-> teams("TSM"), year |-> Str("2016"), split |-> Str("summer"),
                   players |-> <<players("Hauntzer"), players("Svenskeren")>>]
      [] OTHER -> [team |-> teams("TL"), year |-> Str("2019"), split |-> Str("spring"),
                   players |-> <<players("Impact"), players("Xmithie")>>]

\* Object.keys(defaultAnswerForm): team, year, split, then the players' keys
PlayerKey == <<"top", "jungle", "mid", "bot", "support">>
Questions == <<"team", "year", "split">> \o [k \in Players |-> PlayerKey[k]]
Keys == {Questions[n] : n \in 1..Len(Questions)}
\* answer: [] is {}, a string is the set of that string, the team's array the
\* set of its elements
defaultAnswerForm == [key \in Keys |-> [value |-> "", answer |-> {}, correct |-> FALSE]]

\* dirty & n
RECURSIVE BitAnd(_, _)
BitAnd(a, b) ==
    IF a = 0 \/ b = 0
      THEN 0
      ELSE (a % 2) * (b % 2) + 2 * BitAnd(a \div 2, b \div 2)

\* The values of ctx slots as not_equal sees them.
Strings == <<"team", "year", "split", "top", "jungle", "mid", "bot", "support", "x",
             "TSM", "TL", "2013", "2016", "2019", "spring", "summer", "Dyrus", "Hauntzer",
             "Impact", "TheOddOne", "Svenskeren", "Xmithie">>
StringVal(s) ==
    IF s = ""
      THEN EmptyString
      ELSE Val("string", CHOOSE n \in 1..Len(Strings) : Strings[n] = s, FALSE)
BoolVal(b) == Val("boolean", IF b THEN 1 ELSE 0, FALSE)
QuizVal(n) == IF n = NoQuiz THEN Undefined ELSE Obj(n)

\* A slot set that never reaches make_dirty.
NoMark(mask, i, old, new) == mask

\* $$invalidate on a ready component: make_dirty when not_equal reports a change
Mark(mask, i, old, new) == IF safe_not_equal(old, new) THEN OrBit(mask, i) ELSE mask

\* --- DOM
\* Text.wholeText: the data of the node and of the text nodes adjacent to it;
\* every text node the fragments patch is the only child of its parent.
wholeText(text) == text

\* set_data: data = '' + data; if (text.wholeText !== data) text.data = data
set_data(text, string) ==
    IF wholeText(text) # string
      THEN [node |-> string, w |-> 1]
      ELSE [node |-> text, w |-> 0]

\* attr: removeAttribute for null and undefined, setAttribute (which stores the
\* string of the value) when getAttribute differs; an absent attribute is Undef.
attr(node, value) ==
    IF value.t = "undefined"
      THEN [node |-> Undef, w |-> 1]
      ELSE IF node # value
             THEN [node |-> Str(ToString(value)), w |-> 1]
             ELSE [node |-> node, w |-> 0]

\* set_input_value: input.value = value == null ? '' : value
set_input_value(value) == [node |-> IF value.t = "undefined" THEN "" ELSE value.s, w |-> 1]

\* img.src: the src attribute resolved against the document's base URL
BaseURL == "http://localhost/"
img_src(a) == IF a.t = "undefined" THEN "" ELSE BaseURL \o a.s

\* A patch in progress: the fragment's variables and nodes fr, the DOM writes
\* made so far w.
\* A text statement that writes whenever its guard holds.
TextAlways(st, guard, cache, node, value) ==
    IF ~guard
      THEN st
      ELSE [fr |-> [st.fr EXCEPT ![cache] = value, ![node] = value], w |-> st.w + 1]

\* if (guard && cache !== (cache = value)) set_data(node, cache)
TextStmt(st, guard, cache, node, value) ==
    IF ~guard
      THEN st
      ELSE LET r == IF st.fr[cache] # value
                      THEN set_data(st.fr[node], value)
                      ELSE [node |-> st.fr[node], w |-> 0]
           IN  [fr |-> [st.fr EXCEPT ![cache] = value, ![node] = r.node],
                w |-> st.w + r.w]

\* if (guard && cache !== (cache = value)) attr(node, name, cache)
AttrStmt(st, guard, cache, node, value) ==
    IF ~guard
      THEN st
      ELSE LET r == IF st.fr[cache] # value
                      THEN attr(st.fr[node], value)
                      ELSE [node |-> st.fr[node], w |-> 0]
           IN  [fr |-> [st.fr EXCEPT ![cache] = value, ![node] = r.node],
                w |-> st.w + r.w]

\* if (guard) attr(node, name, value)
AttrAlways(st, guard, node, value) ==
    IF ~guard
      THEN st
      ELSE LET r == attr(st.fr[node], value)
           IN  [fr |-> [st.fr EXCEPT ![node] = r.node], w |-> st.w + r.w]

\* --- Player (create_fragment$8)
Player_t0(cx) == ToString(positionNameMap(toLowerCase(cx.player.position.s)))
Player_src(cx) == "assets/" \o ToString(cx.player.nationality) \o ".png"
Player_t3(cx) == ToString(IF cx.showAnswer THEN cx.player.ign ELSE Str("-"))

Player_create(cx) ==
    [t0_value |-> Player_t0(cx), t0 |-> Player_t0(cx),
     img_src_value |-> Player_src(cx), src |-> Str(Player_src(cx)),
     img_alt_value |-> cx.player.nationality, alt |-> cx.player.nationality,
     t3_value |-> Player_t3(cx), t3 |-> Player_t3(cx)]

\* if (dirty & 1 && img.src !== (img_src_value = ...)) attr(img, "src", img_src_value)
Player_src_stmt(st, guard, value) ==
    IF ~guard
      THEN st
      ELSE LET r == IF img_src(st.fr.src) # value
                      THEN attr(st.fr.src, Str(value))
                      ELSE [node |-> st.fr.src, w |-> 0]
           IN  [fr |-> [st.fr EXCEPT !.img_src_value = value, !.src = r.node],
                w |-> st.w + r.w]

Player_p(fr, cx, d) ==
    LET s0 == [fr |-> fr, w |-> 0]
        s1 == TextStmt(s0, BitAnd(d, 1) # 0, "t0_value", "t0", Player_t0(cx))
        s2 == Player_src_stmt(s1, BitAnd(d, 1) # 0, Player_src(cx))
        s3 == AttrStmt(s2, BitAnd(d, 1) # 0, "img_alt_value", "alt", cx.player.nationality)
        s4 == TextStmt(s3, BitAnd(d, 3) # 0, "t3_value", "t3", Player_t3(cx))
    IN  s4

\* instance$4 $$set: the props in $$props go through $$invalidate
Player_set(c, changes) ==
    LET c1 == IF changes.player.given
                THEN [c EXCEPT !.ctx.player = changes.player.v,
                               !.dirty = Mark(c.dirty, 0, Obj(c.ctx.player.k), Obj(changes.player.v.k))]
                ELSE c
        c2 == IF changes.showAnswer.given
                THEN [c1 EXCEPT !.ctx.showAnswer = changes.showAnswer.v,
                                !.dirty = Mark(c1.dirty, 1, BoolVal(c1.ctx.showAnswer), BoolVal(changes.showAnswer.v))]
                ELSE c1
    IN  c2

\* --- Input (create_fragment$7)
Input_create(cx) ==
    [placeholder |-> Str(cx.question), value |-> set_input_value(Str(cx.value)).node]

Input_p(fr, cx, d) ==
    LET s0 == [fr |-> fr, w |-> 0]
        s1 == AttrAlways(s0, BitAnd(d, 2) # 0, "placeholder", Str(cx.question))
        s2 == IF BitAnd(d, 1) # 0 /\ s1.fr.value # cx.value
                THEN [fr |-> [s1.fr EXCEPT !.value = set_input_value(Str(cx.value)).node],
                      w |-> s1.w + set_input_value(Str(cx.value)).w]
                ELSE s1
    IN  s2

\* instance$3 $$set (question and value; the block never passes onChange or onEnter)
Input_set(c, changes) ==
    LET c1 == IF changes.question.given
                THEN [c EXCEPT !.ctx.question = changes.question.v,
                               !.dirty = Mark(c.dirty, 1, StringVal(c.ctx.question), StringVal(changes.question.v))]
                ELSE c
        c2 == IF changes.value.given
                THEN [c1 EXCEPT !.ctx.value = changes.value.v,
                                !.dirty = Mark(c1.dirty, 0, StringVal(c1.ctx.value), StringVal(changes.value.v))]
                ELSE c1
    IN  c2

\* --- the {#if quiz} block of Quiz (create_if_block$1)
\* A team text that is never revealed.
block_dash(cx) == ToString(Str("-"))

block_t7(cx) == ToString(IF cx.answerForm["team"].correct THEN data(cx.quiz).team.abbr ELSE Str("-"))
block_t11(cx) == ToString(IF cx.answerForm["year"].correct THEN data(cx.quiz).year ELSE Str("-"))
block_t15(cx) == ToString(IF cx.answerForm["split"].correct THEN data(cx.quiz).split ELSE Str("-"))

Player_props(cx, k) ==
    [player |-> data(cx.quiz).players[k], showAnswer |-> cx.answerForm[PlayerKey[k]].correct]
Input_props(cx) ==
    [value |-> cx.answerForm[cx.currentQ].value, question |-> cx.currentQ]

\* new Player({ props }), new Input({ props }): init leaves $$.dirty at [-1]
new_Player(props) == [live |-> TRUE, ctx |-> props, dirty |-> 0, fr |-> Player_create(props)]
new_Input(props) == [live |-> TRUE, ctx |-> props, dirty |-> 0, fr |-> Input_create(props)]

\* destroy_component: $$.fragment = null, $$.ctx = []
no_Player ==
    LET props == [player |-> players("Dyrus"), showAnswer |-> FALSE]
    IN  [live |-> FALSE, ctx |-> props, dirty |-> 0, fr |-> Player_create(props)]
no_Input ==
    LET props == [value |-> "", question |-> "team"]
    IN  [live |-> FALSE, ctx |-> props, dirty |-> 0, fr |-> Input_create(props)]

\* if_block = null
no_block ==
    [exists |-> FALSE, current |-> FALSE,
     fr |-> [t7_value |-> "", t7 |-> "", t11_value |-> "", t11 |-> "", t15_value |-> "", t15 |-> ""]]

\* create_if_block$1(ctx), c(), transition_in(if_block, 1) and m(): i and m set current
create_if_block_Quiz(cx) ==
    [exists |-> TRUE, current |-> TRUE,
     fr |-> [t7_value |-> block_t7(cx), t7 |-> block_t7(cx),
             t11_value |-> block_t11(cx), t11 |-> block_t11(cx),
             t15_value |-> block_t15(cx), t15 |-> block_t15(cx)]]

\* const player0_changes = {}; if (dirty & 1) ...; if (dirty & 2) ...
player_changes(cx, d, k) ==
    [player |-> [given |-> BitAnd(d, 1) # 0, v |-> data(cx.quiz).players[k]],
     showAnswer |-> [given |-> BitAnd(d, 2) # 0, v |-> cx.answerForm[PlayerKey[k]].correct]]

input_changes(cx, d) ==
    [question |-> [given |-> BitAnd(d, 4) # 0, v |-> cx.currentQ],
     value |-> [given |-> BitAnd(d, 6) # 0, v |-> cx.answerForm[cx.currentQ].value]]

\* The patch of the block: the children's $set, the three texts.
if_block_p(b, pl, inp, cx, d) ==
    LET guard == ~b.current \/ BitAnd(d, 3) # 0
        s0 == [fr |-> b.fr, w |-> 0]
        s1 == TextStmt(s0, guard, "t7_value", "t7", block_t7(cx))
        s2 == TextStmt(s1, guard, "t11_value", "t11", block_t11(cx))
        s3 == TextStmt(s2, guard, "t15_value", "t15", block_t15(cx))
    IN  [block |-> [b EXCEPT !.fr = s3.fr],
         player |-> [k \in Players |-> Player_set(pl[k], player_changes(cx, d, k))],
         input |-> Input_set(inp, input_changes(cx, d)),
         w |-> s3.w,
         frags |-> 0]

\* --- Quiz (create_fragment$5)
\* A patch that neither creates nor destroys the block.
Quiz_p_keeps(b, pl, inp, cx, d) ==
    [block |-> b, player |-> pl, input |-> inp, w |-> 0, frags |-> 0]

\* p: the block is patched, created and mounted, or outroed: with no outro
\* pending, check_outros runs the completion closure at once, which calls
\* d(1) (destroy_component on every child) and sets if_block = null.
Quiz_p(b, pl, inp, cx, d) ==
    IF cx.quiz # NoQuiz
      THEN IF b.exists
             THEN LET r == if_block_p(b, pl, inp, cx, d)
                  IN  IF BitAnd(d, 1) # 0
                        THEN [r EXCEPT !.block.current = TRUE]
                        ELSE r
             ELSE [block |-> create_if_block_Quiz(cx),
                   player |-> [k \in Players |-> new_Player(Player_props(cx, k))],
                   input |-> new_Input(Input_props(cx)),
                   w |-> 1,
                   frags |-> NumPlayers + 2]
      ELSE IF b.exists
             THEN [block |-> no_block,
                   player |-> [k \in Players |-> no_Player],
                   input |-> no_Input,
                   w |-> 1,
                   frags |-> NumPlayers + 2]
             ELSE [block |-> b, player |-> pl, input |-> inp, w |-> 0, frags |-> 0]

\* The bits of dirty each patch tests.
Player_bits == 3
Input_bits == 3
Quiz_bits == 7
\* A bit no patch tests: slot 3 of Quiz (createQuiz), slot 2 of Input
\* (handleInputChange), and Player has no slot 2.
Quiz_other == 8
Child_other == 4

\* The last patch: the component, the bits of its mask the patch tests, the
\* DOM writes made, the fragments created, mounted or destroyed, the nodes whose
\* content changed, and whether the fragment's variables and nodes are as before.
no_patch == [frag |-> "none", bits |-> 0, w |-> 0, frags |-> 0, changed |-> 0, same |-> TRUE]

\* --- Fa (create_fragment$3, create_if_block, create_if_block_1, create_else_block)
\* A number is its decimal string; an icon is icon.icon: width, height and
\* path data i[4], which is "" for no icon, one string, or an array of two.
Number(s) == [t |-> "number", s |-> s]
faTwitter == [w |-> Number("512"), h |-> Number("512"), k |-> 1, type |-> "string", path |-> <<Str("M459")>>]
faGithub == [w |-> Number("496"), h |-> Number("512"), k |-> 2, type |-> "string", path |-> <<Str("M165")>>]
faDuotone == [w |-> Number("512"), h |-> Number("512"), k |-> 3, type |-> "object", path |-> <<Str("M1"), Str("M2")>>]
noIcon == [w |-> Number("0"), h |-> Number("0"), k |-> 4, type |-> "string", path |-> <<Str("")>>]

\* ToBoolean of a string, a number given by its decimal string, or undefined
TruthyText(x) == x.t # "undefined" /\ x.s # "" /\ ~(x.t = "number" /\ x.s = "0")
\* a || b
Or(a, b) == IF TruthyText(a) THEN a ELSE b

\* ctx[8][4] as a condition
has_path(cx) == cx.i.type = "object" \/ TruthyText(cx.i.path[1])

\* select_block_type: typeof i[4] == "string"
select_block_type(cx) == IF cx.i.type = "string" THEN "create_if_block_1" ELSE "create_else_block"

\* swapOpacity != false
swapped(cx) == ~LooseEq(BoolVal(cx.swapOpacity), JsFalse)

Fa_viewBox(cx) == Str("0 0 " \o ToString(cx.i.w) \o " " \o ToString(cx.i.h))
Fa_path_fill(cx) == Or(cx.color, Or(cx.primaryColor, Str("currentColor")))
Fa_path0_fill(cx) == Or(cx.secondaryColor, Or(cx.color, Str("currentColor")))
Fa_path1_fill(cx) == Or(cx.primaryColor, Or(cx.color, Str("currentColor")))
Fa_path0_opacity(cx) == IF swapped(cx) THEN cx.primaryOpacity ELSE cx.secondaryOpacity
Fa_path1_opacity(cx) == IF swapped(cx) THEN cx.secondaryOpacity ELSE cx.primaryOpacity

\* setAttribute stores the string of the value
Stored(value) == attr(Undef, value).node

\* The variables and attributes of the paths when there is no inner block.
no_paths ==
    [path_d_value |-> Undef, path_d |-> Undef, path_fill_value |-> Undef, path_fill |-> Undef,
     path0_d_value |-> Undef, path0_d |-> Undef, path0_fill_value |-> Undef, path0_fill |-> Undef,
     path0_fill_opacity_value |-> Undef, path0_fill_opacity |-> Undef,
     path1_d_value |-> Undef, path1_d |-> Undef, path1_fill_value |-> Undef, path1_fill |-> Undef,
     path1_fill_opacity_value |-> Undef, path1_fill_opacity |-> Undef]

\* create_if_block_1(ctx).c() / create_else_block(ctx).c()
create_paths(cx) ==
    IF select_block_type(cx) = "create_if_block_1"
      THEN [no_paths EXCEPT !.path_d_value = cx.i.path[1], !.path_d = Stored(cx.i.path[1]),
                            !.path_fill_value = Fa_path_fill(cx),
                            !.path_fill = Stored(Fa_path_fill(cx))]
      ELSE [no_paths EXCEPT !.path0_d_value = cx.i.path[1], !.path0_d = Stored(cx.i.path[1]),
                            !.path0_fill_value = Fa_path0_fill(cx),
                            !.path0_fill = Stored(Fa_path0_fill(cx)),
                            !.path0_fill_opacity_value = Fa_path0_opacity(cx),
                            !.path0_fill_opacity = Stored(Fa_path0_opacity(cx)),
                            !.path1_d_value = cx.i.path[2], !.path1_d = Stored(cx.i.path[2]),
                            !.path1_fill_value = Fa_path1_fill(cx),
                            !.path1_fill = Stored(Fa_path1_fill(cx)),
                            !.path1_fill_opacity_value = Fa_path1_opacity(cx),
                            !.path1_fill_opacity = Stored(Fa_path1_opacity(cx))]

no_svg ==
    [if_block |-> FALSE, current_block_type |-> "none", paths |-> no_paths,
     svg |-> [svg_viewBox_value |-> Undef, viewBox |-> Undef, transform |-> Undef,
              id |-> Undef, class |-> Undef, style |-> Undef]]

\* create_if_block(ctx), c() and m()
create_if_block(cx) ==
    [if_block |-> TRUE, current_block_type |-> select_block_type(cx), paths |-> create_paths(cx),
     svg |-> [svg_viewBox_value |-> Fa_viewBox(cx), viewBox |-> Stored(Fa_viewBox(cx)),
              transform |-> attr(Undef, cx.transform).node,
              id |-> attr(Undef, cx.id).node,
              class |-> attr(Undef, cx.clazz).node,
              style |-> attr(Undef, cx.s).node]]

\* create_fragment$3(ctx): let if_block = ctx[8][4] && create_if_block(ctx)
Fa_create(cx) == IF has_path(cx) THEN create_if_block(cx) ELSE no_svg

create_if_block_1_p(st, cx, d) ==
    LET s1 == AttrStmt(st, BitAnd(d, 256) # 0, "path_d_value", "path_d", cx.i.path[1])
        s2 == AttrStmt(s1, BitAnd(d, 12) # 0, "path_fill_value", "path_fill", Fa_path_fill(cx))
    IN  s2

create_else_block_p(st, cx, d) ==
    LET s1 == AttrStmt(st, BitAnd(d, 256) # 0, "path0_d_value", "path0_d", cx.i.path[1])
        s2 == AttrStmt(s1, BitAnd(d, 20) # 0, "path0_fill_value", "path0_fill", Fa_path0_fill(cx))
        s3 == AttrStmt(s2, BitAnd(d, 224) # 0, "path0_fill_opacity_value", "path0_fill_opacity",
                       Fa_path0_opacity(cx))
        s4 == AttrStmt(s3, BitAnd(d, 256) # 0, "path1_d_value", "path1_d", cx.i.path[2])
        s5 == AttrStmt(s4, BitAnd(d, 12) # 0, "path1_fill_value", "path1_fill", Fa_path1_fill(cx))
        s6 == AttrStmt(s5, BitAnd(d, 224) # 0, "path1_fill_opacity_value", "path1_fill_opacity",
                       Fa_path1_opacity(cx))
    IN  s6

\* The patch of the svg block: the inner block is patched, or destroyed and
\* the block of the other type created and mounted; then the svg's attributes.
create_if_block_p(f, cx, d) ==
    LET same == f.current_block_type = select_block_type(cx)
        inner == IF same
                   THEN IF f.current_block_type = "create_if_block_1"
                          THEN create_if_block_1_p([fr |-> f.paths, w |-> 0], cx, d)
                          ELSE create_else_block_p([fr |-> f.paths, w |-> 0], cx, d)
                   ELSE [fr |-> create_paths(cx), w |-> 1]
        s0 == [fr |-> f.svg, w |-> inner.w]
        s1 == AttrAlways(s0, BitAnd(d, 1024) # 0, "transform", cx.transform)
        s2 == AttrAlways(s1, BitAnd(d, 2) # 0, "id", cx.id)
        s3 == AttrAlways(s2, BitAnd(d, 1) # 0, "class", cx.clazz)
        s4 == AttrAlways(s3, BitAnd(d, 512) # 0, "style", cx.s)
        s5 == AttrStmt(s4, BitAnd(d, 256) # 0, "svg_viewBox_value", "viewBox", Fa_viewBox(cx))
    IN  [fr |-> [if_block |-> TRUE, current_block_type |-> select_block_type(cx),
                 paths |-> inner.fr, svg |-> s5.fr],
         w |-> s5.w,
         frags |-> IF same THEN 0 ELSE 2]

Fa_p(f, cx, d) ==
    IF has_path(cx)
      THEN IF f.if_block
             THEN create_if_block_p(f, cx, d)
             ELSE [fr |-> create_if_block(cx), w |-> 1, frags |-> 2]
      ELSE IF f.if_block
             THEN [fr |-> no_svg, w |-> 1, frags |-> 1]
             ELSE [fr |-> f, w |-> 0, frags |-> 0]

Fa_bits == 2047          \* 1 | 2 | 12 | 20 | 224 | 256 | 512 | 1024
Fa_other == 4096         \* icon, slot 12

\* The props of new Fa({ props: { icon: faTwitter } }) after init: the defaults
\* of instance, and i, s and transform as $$.update computed them.
Fa_props ==
    [clazz |-> Str(""), id |-> Str(""), color |-> Str(""), primaryColor |-> Str(""),
     secondaryColor |-> Str(""), primaryOpacity |-> Number("1"), secondaryOpacity |-> Number("0.4"),
     swapOpacity |-> FALSE, i |-> faTwitter, s |-> Str(""), transform |-> Str("")]
new_Fa == [ctx |-> Fa_props, dirty |-> 0, fr |-> Fa_create(Fa_props)]

\* The slot of each ctx entry the patch reads, and the values the component
\* code gives it.
Fa_slot ==
    [clazz |-> 0, id |-> 1, color |-> 2, primaryColor |-> 3, secondaryColor |-> 4,
     primaryOpacity |-> 5, secondaryOpacity |-> 6, swapOpacity |-> 7, i |-> 8, s |-> 9,
     transform |-> 10]
Fa_values ==
    [clazz |-> {Str(""), Str("big")}, id |-> {Str(""), Undef}, color |-> {Str(""), Str("red")},
     primaryColor |-> {Str(""), Str("blue")}, secondaryColor |-> {Str(""), Str("green")},
     primaryOpacity |-> {Number("1"), Number("0.4")},
     secondaryOpacity |-> {Number("0.4"), Number("1")},
     swapOpacity |-> BOOLEAN, i |-> {faTwitter, faGithub, faDuotone, noIcon},
     s |-> {Str(""), Str("font-size:2em;")}, transform |-> {Str(""), Str(" rotate(90 0 0)")}]

\* not_equal on a new value of entry name
Fa_changed(name, old, new) ==
    CASE name = "i" -> safe_not_equal(Obj(old.k), Obj(new.k))
      [] name = "swapOpacity" -> safe_not_equal(BoolVal(old), BoolVal(new))
      [] OTHER -> old # new

\* $$invalidate(slot, value) on the ready component
Fa_invalidate(c, name, value) ==
    [c EXCEPT !.ctx[name] = value,
              !.dirty = IF Fa_changed(name, c.ctx[name], value)
                          THEN OrBit(c.dirty, Fa_slot[name])
                          ELSE c.dirty]

Fa_differs(cx) == {name \in DOMAIN Fa_slot : cx[name] # Fa_props[name]}

\* How many of the nodes and variables named in fields differ between two
\* states of a fragment.
Changed(before, after, fields) == Cardinality({f \in fields : before[f] # after[f]})

\* One run of component code of Fa ($$set from a parent's $set, and the
\* $$.update that follows it): $$invalidate of one ctx entry, or of two with
\* the lower slot first.  The quiz's components and Fa share no state: Fa's
\* steps are taken before the quiz has started, and the quiz's with Fa as
\* constructed.
FaSet(name1, value1, name2, value2) ==
    LET c == Fa_invalidate(Fa_invalidate(Fa, name1, value1), name2, value2)
    IN  /\ Quiz.answeredPool = <<>>
        /\ Fa.dirty = 0
        /\ Fa_slot[name1] <= Fa_slot[name2]
        /\ Cardinality(Fa_differs(c.ctx)) <= MaxFaProps
        /\ Fa' = c
        /\ UNCHANGED <<Quiz, if_block, player, input, last_p, beside_patch>>

Fa_attrs == {"viewBox", "transform", "id", "class", "style"}
Fa_path_attrs ==
    {"path_d", "path_fill", "path0_d", "path0_fill", "path0_fill_opacity",
     "path1_d", "path1_fill", "path1_fill_opacity"}

FaPatch(other) ==
    LET d == Fa.dirty + other
        r == Fa_p(Fa.fr, Fa.ctx, d)
    IN  /\ Quiz.answeredPool = <<>>
        /\ Fa' = [Fa EXCEPT !.dirty = 0, !.fr = r.fr]
        /\ last_p' = [frag |-> "Fa", bits |-> BitAnd(d, Fa_bits), w |-> r.w, frags |-> r.frags,
                      changed |-> Changed(Fa.fr.svg, r.fr.svg, Fa_attrs)
                                    + Changed(Fa.fr.paths, r.fr.paths, Fa_path_attrs),
                      same |-> r.fr = Fa.fr]
        /\ UNCHANGED <<Quiz, if_block, player, input, beside_patch>>

\* --- Quiz (instance$1)
\* The Quiz component after new Quiz(...) has returned: instance$1 returns
\* [quiz, answerForm, currentQ, ...] with quiz and answerForm undefined and
\* currentQ "team"; ctx[0] is falsy, so the fragment has no block.
PatchIdle ==
    /\ Quiz = [ctx |-> [quiz |-> NoQuiz, hasForm |-> FALSE,
                        answerForm |-> defaultAnswerForm, currentQ |-> "team"],
               dirty |-> 0, answeredPool |-> <<>>, qs |-> Questions]
    /\ if_block = no_block
    /\ player = [k \in Players |-> no_Player]
    /\ input = no_Input
    /\ Fa = new_Fa
    /\ last_p = no_patch

\* Event handlers are tasks: the flush an earlier handler scheduled has run
\* before the next one starts, so no component has a pending mark.
Quiescent ==
    /\ Quiz.dirty = 0
    /\ input.dirty = 0
    /\ \A k \in Players : player[k].dirty = 0

\* A reset that also starts the questions again.
resetQuestions(Q) ==
    [Q EXCEPT !.ctx.hasForm = TRUE,
              !.ctx.answerForm = defaultAnswerForm,
              !.ctx.currentQ = "team",
              !.qs = Questions,
              !.dirty = Mark(Q.dirty, 1, IF Q.ctx.hasForm THEN Obj(1) ELSE Undefined, Obj(2))]

\* resetAnswerForm: $$invalidate(1, answerForm = JSON.parse(JSON.stringify(defaultAnswerForm)))
resetAnswerForm(Q) ==
    [Q EXCEPT !.ctx.hasForm = TRUE,
              !.ctx.answerForm = defaultAnswerForm,
              !.dirty = Mark(Q.dirty, 1, IF Q.ctx.hasForm THEN Obj(1) ELSE Undefined, Obj(2))]

\* A pool that is not filtered.
fullPool(Q) == Quizzes

\* fullPool.filter(i => !answeredPool.includes(i))
pool(Q) == {n \in Quizzes : \A m \in 1..Len(Q.answeredPool) : Q.answeredPool[m] # n}

\* The answers createQuiz stores for quiz n.
answers(n) ==
    [key \in Keys |->
        CASE key = "team" ->
                 {toLowerCase(data(n).team.name[m]) : m \in 1..Len(data(n).team.name)}
                     \cup {toLowerCase(data(n).team.abbr.s)}
          [] key = "year" -> {data(n).year.s}
          [] key = "split" -> {toLowerCase(data(n).split.s)}
          [] OTHER -> {toLowerCase(data(n).players[k].ign.s) : k \in {j \in Players : PlayerKey[j] = key}}]

\* createQuiz where pool[Math.floor(Math.random() * pool.length)] is n, NoQuiz
\* for the undefined an empty pool gives: quiz = data[undefined] is undefined
\* and quiz.team.name throws after $$invalidate(0, ...).
createQuiz(Q, n) ==
    LET q1 == resetAnswerForm(Q)
        q2 == [q1 EXCEPT !.answeredPool = Append(@, n),
                         !.ctx.quiz = n,
                         !.dirty = Mark(q1.dirty, 0, QuizVal(q1.ctx.quiz), QuizVal(n))]
        q3 == [q2 EXCEPT !.ctx.answerForm =
                             [key \in Keys |-> [@[key] EXCEPT !.answer = answers(n)[key]]],
                         !.dirty = Mark(q2.dirty, 1, Obj(1), Obj(1))]
    IN  [Q |-> IF n = NoQuiz THEN q2 ELSE q3, thrown |-> n = NoQuiz]

\* A pick that starts over when the pool is empty.
picksAgain(Q) == IF pool(Q) = {} THEN Quizzes ELSE pool(Q)

picks(Q) == IF pool(Q) = {} THEN {NoQuiz} ELSE pool(Q)

\* createQuiz called by the onMount callback or by a click on the SkipButton.
CreateQuiz ==
    /\ Quiescent
    /\ Fa = new_Fa
    /\ Len(Quiz.answeredPool) < NumQuizzes + MaxFailed
    /\ \E n \in picks(Quiz) : Quiz' = createQuiz(Quiz, n).Q
    /\ UNCHANGED <<if_block, player, input, last_p, Fa, beside_patch>>

\* What the user types: something wrong, or the answer to the question asked.
RightAnswer(n, key) ==
    CASE key = "team" -> data(n).team.abbr.s
      [] key = "year" -> data(n).year.s
      [] key = "split" -> data(n).split.s
      [] OTHER -> data(n).players[CHOOSE k \in Players : PlayerKey[k] = key].ign.s
Typed ==
    {"x"} \cup (IF Quiz.ctx.quiz = NoQuiz
                  THEN {}
                  ELSE {RightAnswer(Quiz.ctx.quiz, toLowerCase(input.ctx.question))})

\* The user types v: the input event runs input_input_handler (value =
\* this.value; $$invalidate(0, value)) and handleInputChange, which calls
\* handleInputChance(question.toLowerCase(), v) of Quiz:
\* $$invalidate(1, answerForm[key].value = value, answerForm).
InputEvent(v) ==
    /\ Quiescent
    /\ input.live
    /\ input' = [input EXCEPT !.fr.value = v,
                              !.ctx.value = v,
                              !.dirty = Mark(input.dirty, 0, StringVal(input.ctx.value), StringVal(v))]
    /\ Quiz' = [Quiz EXCEPT !.ctx.answerForm[toLowerCase(input.ctx.question)].value = v,
                            !.dirty = Mark(Quiz.dirty, 1, Obj(1), Obj(1))]
    /\ UNCHANGED <<if_block, player, last_p, Fa, beside_patch>>

\* A check that takes every typed value for the answer.
AcceptsAnything(Q, key) == TRUE

\* The last question removed in place of the first.
dropLast(q) == SubSeq(q, 1, Len(q) - 1)

\* qs.shift()
shift(q) == Tail(q)

\* The condition of handleInputEnter: answer.includes(value.toLowerCase()) for
\* the team, answer === value.toLowerCase() for the other keys (answer is then
\* one string, or the [] of the default form, which equals no string).
accepted(Q, key) ==
    LET form == Q.ctx.answerForm
        typed == toLowerCase(form[key].value)
    IN  \/ key = "team" /\ typed \in form.team.answer
        \/ key # "team" /\ form[key].answer = {typed}

\* handleInputEnter(key) where createQuiz, if it is called, picks n
handleInputEnter(Q, key, n) ==
    LET form == Q.ctx.answerForm
        right == accepted(Q, key)
        q1 == [Q EXCEPT !.ctx.answerForm[key].correct = TRUE,
                        !.dirty = Mark(Q.dirty, 1, Obj(1), Obj(1)),
                        !.qs = shift(Q.qs)]
        q2 == IF q1.qs = <<>> THEN [q1 EXCEPT !.qs = Questions] ELSE q1
        r == IF q1.qs = <<>> THEN createQuiz(q2, n) ELSE [Q |-> q2, thrown |-> FALSE]
        q3 == [r.Q EXCEPT !.ctx.currentQ = r.Q.qs[1],
                          !.dirty = Mark(r.Q.dirty, 2, StringVal(r.Q.ctx.currentQ),
                                         StringVal(r.Q.qs[1]))]
    IN  IF ~right THEN Q
        ELSE IF r.thrown THEN r.Q
        ELSE q3

\* keyup with key "Enter": handleInputEnterPress calls onEnter(question.toLowerCase())
KeyEnter ==
    /\ Quiescent
    /\ input.live
    /\ Len(Quiz.answeredPool) < NumQuizzes + MaxFailed
    /\ \E n \in picks(Quiz) :
          Quiz' = handleInputEnter(Quiz, toLowerCase(input.ctx.question), n)
    /\ UNCHANGED <<if_block, player, input, last_p, Fa, beside_patch>>

\* update(Quiz.$$): $$.dirty = [-1]; fragment.p($$.ctx, dirty), with the pending
\* mask and, when other is set, a bit the patch does not test.
QuizPatch(other) ==
    LET d == Quiz.dirty + other
        r == Quiz_p(if_block, player, input, Quiz.ctx, d)
    IN  /\ Fa = new_Fa
        /\ Quiz' = [Quiz EXCEPT !.dirty = 0]
        /\ if_block' = r.block
        /\ player' = r.player
        /\ input' = r.input
        /\ last_p' = [frag |-> "Quiz", bits |-> BitAnd(d, Quiz_bits), w |-> r.w,
                      frags |-> r.frags,
                      changed |-> Changed(if_block.fr, r.block.fr, {"t7", "t11", "t15"}),
                      same |-> /\ r.block = if_block
                               /\ r.player = player
                               /\ r.input = input]
        /\ UNCHANGED <<Fa, beside_patch>>

PlayerPatch(k, other) ==
    LET d == player[k].dirty + other
        r == Player_p(player[k].fr, player[k].ctx, d)
    IN  /\ Fa = new_Fa
        /\ player[k].live
        /\ player' = [player EXCEPT ![k].dirty = 0, ![k].fr = r.fr]
        /\ last_p' = [frag |-> "Player", bits |-> BitAnd(d, Player_bits), w |-> r.w,
                      frags |-> 0,
                      changed |-> Changed(player[k].fr, r.fr, {"t0", "src", "alt", "t3"}),
                      same |-> r.fr = player[k].fr]
        /\ UNCHANGED <<Quiz, if_block, input, Fa, beside_patch>>

InputPatch(other) ==
    LET d == input.dirty + other
        r == Input_p(input.fr, input.ctx, d)
    IN  /\ Fa = new_Fa
        /\ input.live
        /\ input' = [input EXCEPT !.dirty = 0, !.fr = r.fr]
        /\ last_p' = [frag |-> "Input", bits |-> BitAnd(d, Input_bits), w |-> r.w,
                      frags |-> 0,
                      changed |-> Changed(input.fr, r.fr, {"placeholder", "value"}),
                      same |-> r.fr = input.fr]
        /\ UNCHANGED <<Quiz, if_block, player, Fa, beside_patch>>

\* ------------------------------------------------------------ hydration
\* init_hydrate(target) reorders the claimed children of target.  A child is
\* a DOM node carrying a claim_order; the claim phase stamps each node it
\* consumes with the next value of a counter, so the claim orders of the
\* children of one target are distinct integers and a node is identified here
\* by its claim_order.  JavaScript arrays are functions on 0 .. length - 1;
\* target.childNodes is a sequence, children[i] its element i + 1.
ClaimOrders == 0..(MaxChildren - 1)
NullNode == -1           \* the anchor null: insertBefore(node, null) appends

At(children, i) == children[i + 1]

\* A maximum that keeps its second argument.
KeepSecond(a, b) == b

\* Math.max
Max(a, b) == IF a >= b THEN a ELSE b

\* A search that stops at the first index of the range.
first_index(low, high, key, value) == low

\* upper_bound: the first index in [low, high) whose key is larger than value
RECURSIVE upper_bound(_, _, _, _)
upper_bound(low, high, key, value) ==
    IF low < high
      THEN LET mid == low + ((high - low) \div 2)
           IN  IF key[mid] <= value
                 THEN upper_bound(mid + 1, high, key, value)
                 ELSE upper_bound(low, mid, key, value)
      ELSE low

\* for (let i = 0; i < children.length; i++) { ... }: m[j] is the index of the
\* smallest value that ends an increasing subsequence of length j, p[i] the
\* predecessor index of i plus one.
RECURSIVE longest_loop(_, _, _, _, _)
longest_loop(children, i, m, p, longest) ==
    IF i < Len(children)
      THEN LET current == At(children, i)
               seqLen == upper_bound(1, longest + 1,
                                     [ix \in 1..longest |-> At(children, m[ix])],
                                     current) - 1
               newLen == seqLen + 1
           IN  longest_loop(children, i + 1,
                            [m EXCEPT ![newLen] = i],
                            [p EXCEPT ![i] = m[seqLen] + 1],
                            Max(newLen, longest))
      ELSE [m |-> m, p |-> p, longest |-> longest]

\* for (; last >= stop; last--) toMove.push(children[last])
RECURSIVE push_down(_, _, _, _)
push_down(children, last, stop, toMove) ==
    IF last >= stop
      THEN push_down(children, last - 1, stop, Append(toMove, At(children, last)))
      ELSE toMove

\* for (let cur = m[longest] + 1; cur != 0; cur = p[cur - 1]) { ... } and the
\* loop after it: lis (reversed) and the nodes that will be moved
RECURSIVE split(_, _, _, _, _, _)
split(children, p, cur, last, lis, toMove) ==
    IF cur # 0
      THEN split(children, p, p[cur - 1],
                 (IF last >= cur THEN cur - 1 ELSE last) - 1,
                 Append(lis, At(children, cur - 1)),
                 push_down(children, last, cur, toMove))
      ELSE [lis |-> lis, toMove |-> push_down(children, last, 0, toMove)]

\* Array.prototype.reverse
reverse(s) == [i \in 1..Len(s) |-> s[Len(s) + 1 - i]]

\* Array.prototype.sort((a, b) => a.claim_order - b.claim_order), a stable sort
RECURSIVE sort_into(_, _)
sort_into(sorted, x) ==
    IF sorted # <<>> /\ sorted[Len(sorted)] > x
      THEN Append(sort_into(SubSeq(sorted, 1, Len(sorted) - 1), x), sorted[Len(sorted)])
      ELSE Append(sorted, x)

RECURSIVE sort(_)
sort(s) ==
    IF s = <<>> THEN <<>>
    ELSE sort_into(sort(SubSeq(s, 1, Len(s) - 1)), s[Len(s)])

\* An insertion that ignores its anchor.
appendChild(childNodes, node, anchor) ==
    Append(SelectSeq(childNodes, LAMBDA x : x # node), node)

\* Node.insertBefore(node, anchor): node leaves its place among the children
\* and is put before anchor, or at the end when anchor is null.
insertBefore(childNodes, node, anchor) ==
    LET rest == SelectSeq(childNodes, LAMBDA x : x # node)
    IN  IF anchor = NullNode
          THEN Append(rest, node)
          ELSE LET at == CHOOSE i \in 1..Len(rest) : rest[i] = anchor
               IN  SubSeq(rest, 1, at - 1) \o <<node>> \o SubSeq(rest, at, Len(rest))

\* while (j < lis.length && toMove[i].claim_order >= lis[j].claim_order) j++
RECURSIVE skip_smaller(_, _, _)
skip_smaller(lis, j, claim_order) ==
    IF j < Len(lis) /\ claim_order >= At(lis, j)
      THEN skip_smaller(lis, j + 1, claim_order)
      ELSE j

\* for (let i = 0, j = 0; i < toMove.length; i++) { ... target.insertBefore(toMove[i], anchor) }
RECURSIVE move_loop(_, _, _, _, _, _)
move_loop(childNodes, calls, toMove, lis, i, j) ==
    IF i < Len(toMove)
      THEN LET node == At(toMove, i)
               j2 == skip_smaller(lis, j, node)
               anchor == IF j2 < Len(lis) THEN At(lis, j2) ELSE NullNode
           IN  move_loop(insertBefore(childNodes, node, anchor),
                         Append(calls, [node |-> node, anchor |-> anchor]),
                         toMove, lis, i + 1, j2)
      ELSE [childNodes |-> childNodes, calls |-> calls]

\* init_hydrate(target): the target afterwards and the insertBefore calls made
init_hydrate(t) ==
    IF t.hydrate_init
      THEN [target |-> t, calls |-> <<>>]
      ELSE LET children == t.childNodes
               n == Len(children)
               found == longest_loop(children, 0,
                                     [j \in 0..n |-> IF j = 0 THEN -1 ELSE 0],
                                     [j \in 0..(n - 1) |-> 0], 0)
               parts == split(children, found.p, found.m[found.longest] + 1,
                              n - 1, <<>>, <<>>)
               moved == move_loop(children, <<>>, sort(parts.toMove),
                                  reverse(parts.lis), 0, 0)
           IN  [target |-> [childNodes |-> moved.childNodes, hydrate_init |-> TRUE],
                calls |-> moved.calls]

\* A target of the document before hydration has touched it.
HydrIdle ==
    /\ hydr_target = [childNodes |-> <<>>, hydrate_init |-> FALSE]
    /\ insert_calls = <<>>
    /\ claimed = <<>>
    /\ hydrate_calls = 0

\* The claim phase leaves one more claimed node among the children of target,
\* at the place the server's markup has it.
ClaimNode(claim_order) ==
    /\ ~hydr_target.hydrate_init
    /\ hydrate_calls = 0
    /\ Len(hydr_target.childNodes) < MaxChildren
    /\ \A i \in 1..Len(hydr_target.childNodes) : hydr_target.childNodes[i] # claim_order
    /\ hydr_target' = [hydr_target EXCEPT !.childNodes = Append(@, claim_order)]
    /\ UNCHANGED <<insert_calls, claimed, hydrate_calls, beside_hydr>>

\* A call init_hydrate(target), as append makes it while is_hydrating.
InitHydrate ==
    /\ hydrate_calls < MaxHydrateCalls
    /\ LET r == init_hydrate(hydr_target)
       IN  /\ hydr_target' = r.target
           /\ insert_calls' = insert_calls \o r.calls
    /\ claimed' = IF hydr_target.hydrate_init THEN claimed ELSE hydr_target.childNodes
    /\ hydrate_calls' = hydrate_calls + 1
    /\ UNCHANGED beside_hydr

\* ---------------------------------------------------------- transitions
\* group_outros, check_outros, transition_in and transition_out.  A block is
\* a fragment object; every fragment of the program has an o and an i hook
\* (noop when it has nothing to do), so the guard block && block.o fails
\* only for a null block.  OuterBlock is a block like the {#if quiz} block,
\* whose o(local) and i(local) call transition_out and transition_in on the
\* fragment of a child (lines 1574-1592); the other blocks' hooks call nothing.
Blocks == 1..NumBlocks
NoBlock == 0             \* a null block (if_block = null)
OuterBlock == 1
InnerBlock == 2
Locals == {0, 1}

\* let outros: undefined is <<>>, a group is <<[r, c, p]>> with p the value
\* of outros when group_outros made it.
NoGroup == <<>>
NewGroup(parent) == <<[r |-> 0, c |-> <<>>, p |-> parent]>>

RECURSIVE Depth(_)
Depth(group) == IF group = NoGroup THEN 0 ELSE 1 + Depth(group[1].p)

\* The closures held by a group and the groups above it.
RECURSIVE Held(_)
Held(group) == IF group = NoGroup THEN 0 ELSE Len(group[1].c) + Held(group[1].p)

\* The closure transition_out pushes: () => { outroing.delete(block);
\* if (callback) { if (detach) block.d(1); callback(); } }
Closure(block, detach, callback) ==
    [block |-> block, detach |-> detach, callback |-> callback]

\* A call of a hook of a block or of a completion callback (history).
Event(e, block, arg) == [e |-> e, block |-> block, arg |-> arg]

\* The state the four functions read and write, as one value: outros,
\* outroing, the hook calls made so far in the running call, and whether the
\* running call has thrown.
TransState == [outros |-> outros, outroing |-> outroing, events |-> <<>>, thrown |-> FALSE]

\* A group whose remaining count went up by one.
more_remaining(group, closure) ==
    <<[group[1] EXCEPT !.r = @ + 1, !.c = Append(@, closure)]>>

\* outros.c.push(closure)
push(group, closure) == <<[group[1] EXCEPT !.c = Append(@, closure)]>>

\* transition_out(block, local, detach, callback); outside every group
\* outros is undefined and outros.c throws a TypeError, after outroing.add.
RECURSIVE transition_out(_, _, _, _, _)
RECURSIVE block_o(_, _, _)
transition_out(st, block, local, detach, callback) ==
    IF st.thrown \/ block = NoBlock THEN st
    ELSE IF block \in st.outroing THEN st
    ELSE IF st.outros = NoGroup
      THEN [st EXCEPT !.outroing = @ \cup {block}, !.thrown = TRUE]
      ELSE block_o([st EXCEPT !.outroing = @ \cup {block},
                              !.outros = push(@, Closure(block, detach, callback)),
                              !.events = Append(@, Event("o", block, local))],
                   block, local)

\* block.o(local)
block_o(st, block, local) ==
    IF block = OuterBlock /\ InnerBlock \in Blocks
      THEN transition_out(st, InnerBlock, local, FALSE, FALSE)
      ELSE st

\* transition_in(block, local)
RECURSIVE transition_in(_, _, _)
transition_in(st, block, local) ==
    IF block = NoBlock THEN st
    ELSE LET called == [st EXCEPT !.outroing = @ \ {block},
                                  !.events = Append(@, Event("i", block, local))]
         IN  IF block = OuterBlock /\ InnerBlock \in Blocks
               THEN transition_in(called, InnerBlock, local)
               ELSE called

\* A closure that only un-marks its block.
only_delete(st, closure) == [st EXCEPT !.outroing = @ \ {closure.block}]

\* One closure of outros.c, run.
run_closure(st, closure) ==
    LET deleted == [st EXCEPT !.outroing = @ \ {closure.block}]
        detached == IF closure.detach
                      THEN [deleted EXCEPT !.events = Append(@, Event("d", closure.block, 1))]
                      ELSE deleted
    IN  IF closure.callback
          THEN [detached EXCEPT !.events = Append(@, Event("callback", closure.block, 0))]
          ELSE deleted

\* run_all(fns): fns.forEach(run)
RECURSIVE run_all(_, _)
run_all(st, fns) ==
    IF fns = <<>> THEN st
    ELSE run_all(run_closure(st, Head(fns)), Tail(fns))

\* A check that keeps the group current.
no_pop(group) == group

\* outros = outros.p
pop(group) == group[1].p

\* check_outros(); outside every group outros.r throws a TypeError.
check_outros(st) ==
    IF st.outros = NoGroup THEN [st EXCEPT !.thrown = TRUE]
    ELSE LET ran == IF st.outros[1].r = 0 THEN run_all(st, st.outros[1].c) ELSE st
         IN  [ran EXCEPT !.outros = pop(@)]

\* group_outros()
group_outros(st) == [st EXCEPT !.outros = NewGroup(@)]

NoTransCall == [op |-> "none", block |-> NoBlock, local |-> 0, detach |-> FALSE,
                callback |-> FALSE, outros |-> NoGroup, outroing |-> {},
                events |-> <<>>, thrown |-> FALSE]

\* A call as last_call keeps it: its arguments, outros and outroing as the
\* call found them, the hook and callback calls it made, whether it threw.
TransCall(op, block, local, detach, callback, st) ==
    [op |-> op, block |-> block, local |-> local, detach |-> detach,
     callback |-> callback, outros |-> outros, outroing |-> outroing,
     events |-> st.events, thrown |-> st.thrown]

TransIdle ==
    /\ outros = NoGroup
    /\ outroing = {}
    /\ entered = <<>>
    /\ last_call = NoTransCall

Returned(st) ==
    /\ outros' = st.outros
    /\ outroing' = st.outroing

GroupOutros ==
    /\ ~last_call.thrown
    /\ Depth(outros) < MaxDepth
    /\ LET st == group_outros(TransState)
       IN  /\ Returned(st)
           /\ last_call' = TransCall("group_outros", NoBlock, 0, FALSE, FALSE, st)
    /\ entered' = Append(entered, outros)
    /\ UNCHANGED beside_trans

TransitionOut(block, local, detach, callback) ==
    /\ ~last_call.thrown
    /\ LET st == transition_out(TransState, block, local, detach, callback)
       IN  /\ Held(st.outros) <= MaxClosures
           /\ Returned(st)
           /\ last_call' = TransCall("transition_out", block, local, detach, callback, st)
    /\ UNCHANGED <<entered, beside_trans>>

TransitionIn(block, local) ==
    /\ ~last_call.thrown
    /\ LET st == transition_in(TransState, block, local)
       IN  /\ Returned(st)
           /\ last_call' = TransCall("transition_in", block, local, FALSE, FALSE, st)
    /\ UNCHANGED <<entered, beside_trans>>

CheckOutros ==
    /\ ~last_call.thrown
    /\ LET st == check_outros(TransState)
       IN  /\ Returned(st)
           /\ last_call' = TransCall("check_outros", NoBlock, 0, FALSE, FALSE, st)
    /\ entered' = IF entered = <<>> THEN entered ELSE SubSeq(entered, 1, Len(entered) - 1)
    /\ UNCHANGED beside_trans

\* ------------------------------------------------------- specification
\* The scheduler and the components after the prologue has run.
RuntimeInit ==
    /\ task = "none"
    /\ microtasks = 0
    /\ pc = "idle"
    /\ idx = 0
    /\ stack = <<>>
    /\ dirty_components = <<>>
    /\ binding_callbacks = <<>>
    /\ render_callbacks = <<>>
    /\ flush_callbacks = <<>>
    /\ update_scheduled = FALSE
    /\ flushing = FALSE
    /\ seen_callbacks = {}
    /\ current_component = NoComp
    /\ fragment = [c \in Comps |-> "none"]
    /\ dirty = [c \in Comps |-> <<Sentinel>>]
    /\ on_mount = [c \in Comps |-> <<>>]
    /\ on_destroy = [c \in Comps |-> "array"]
    /\ on_destroy_array = [c \in Comps |-> <<>>]
    /\ after_update = [c \in Comps |-> <<>>]
    /\ destroy_noop = [c \in Comps |-> FALSE]
    /\ marks = [c \in Comps |-> {}]
    /\ patch_call = NoCall
    /\ cb_runs = [cb \in Callbacks |-> 0]
    /\ guard_returns = FALSE
    /\ destroy_calls = 0
    /\ destroy_runs = [c \in Comps |-> 0]
    /\ d_calls = [c \in Comps |-> 0]
    /\ thrown = "none"

Init ==
    /\ RuntimeInit
    /\ InitIdle
    /\ PatchIdle
    /\ HydrIdle
    /\ TransIdle
    /\ SetIdle
    /\ OnIdle
    /\ WideIdle

Next ==
    \/ StartHandler
    \/ EndHandler
    \/ RunMicrotask
    \/ FlushUpdate
    \/ UpdateReturn
    \/ PatchReturn
    \/ FlushComponentsDone
    \/ FlushRender
    \/ \E ret \in BOOLEAN : CallbackReturn(ret)
    \/ FlushRenderDone
    \/ \E c \in Comps, i \in Slots : Invalidate(c, i)
    \/ \E c \in Comps, om \in BOOLEAN, au \in BOOLEAN, target \in BOOLEAN :
          Construct(c, om, au, target)
    \/ \E c \in Comps, r \in Comps \cup {NoComp} : SvelteComponent_destroy(c, r)
    \/ Throw

Spec == Init /\ [][Next]_vars

\* init of one component in the runtime's initial state.
InitNext ==
    \/ InitBegin
    \/ \E i \in Slots, v \in Values : invalidate(i, v)
    \/ InstanceReturn
    \/ SetReady

InitSpec == Init /\ [][InitNext]_vars

\* The quiz's component code and the patches of its components.
PatchNext ==
    \/ CreateQuiz
    \/ \E v \in Typed : InputEvent(v)
    \/ KeyEnter
    \/ \E other \in {0, Quiz_other} : QuizPatch(other)
    \/ \E k \in Players, other \in {0, Child_other} : PlayerPatch(k, other)
    \/ \E other \in {0, Child_other} : InputPatch(other)
    \/ \E name1 \in DOMAIN Fa_slot, name2 \in DOMAIN Fa_slot :
          \E value1 \in Fa_values[name1], value2 \in Fa_values[name2] :
             FaSet(name1, value1, name2, value2)
    \/ \E other \in {0, Fa_other} : FaPatch(other)

PatchSpec == Init /\ [][PatchNext]_vars

\* The quiz alone: its handlers and the patches flush makes with the pending
\* masks, without the Fa components and without the bits no patch tests.
QuizNext ==
    \/ CreateQuiz
    \/ \E v \in Typed : InputEvent(v)
    \/ KeyEnter
    \/ QuizPatch(0)
    \/ \E k \in Players : PlayerPatch(k, 0)
    \/ InputPatch(0)

QuizSpec == Init /\ [][QuizNext]_vars

\* init_hydrate on every list of at most MaxChildren claimed children.
HydrateNext ==
    \/ \E claim_order \in ClaimOrders : ClaimNode(claim_order)
    \/ InitHydrate

HydrateSpec == Init /\ [][HydrateNext]_vars

\* Any sequence of calls of the transition functions.
TransNext ==
    \/ GroupOutros
    \/ \E block \in Blocks \cup {NoBlock}, local \in Locals,
          detach \in BOOLEAN, callback \in BOOLEAN :
          TransitionOut(block, local, detach, callback)
    \/ \E block \in Blocks \cup {NoBlock}, local \in Locals : TransitionIn(block, local)
    \/ CheckOutros

TransSpec == Init /\ [][TransNext]_vars

\* $set on one component, after its init.
SetNext ==
    \/ InitBegin
    \/ \E i \in Slots, v \in SetValues : invalidate(i, v)
    \/ InstanceReturn
    \/ SetReady
    \/ \E has_set \in BOOLEAN, props \in PropsObjects : SvelteComponent_set(has_set, props)
    \/ PropStatement
    \/ SetReturn

SetSpec == Init /\ [][SetNext]_vars

\* $on calls and calls of the functions they returned, in any order.
OnNext ==
    \/ \E type \in Types, callback \in Listeners : SvelteComponent_on(type, callback)
    \/ \E n \in 1..MaxOn : Unsubscribe(n)

OnSpec == Init /\ [][OnNext]_vars

\* Marks, updates and the destruction of a component with many slots.
WideNext ==
    \/ \E i \in WideSlots : WideMark(i)
    \/ \E w \in 0..(WideWords - 1) : WideMarkWord(w)
    \/ WideUpdate
    \/ WideDestroy

WideSpec == Init /\ [][WideNext]_vars

\* The runtime with component code that calls onMount after construction.
MountNext ==
    \/ StartHandler
    \/ EndHandler
    \/ RunMicrotask
    \/ FlushUpdate
    \/ UpdateReturn
    \/ PatchReturn
    \/ FlushComponentsDone
    \/ FlushRender
    \/ \E ret \in BOOLEAN : CallbackReturn(ret)
    \/ FlushRenderDone
    \/ \E c \in Comps, i \in Slots : Invalidate(c, i)
    \/ \E c \in Comps, om \in BOOLEAN, target \in BOOLEAN : Construct(c, om, FALSE, target)
    \/ onMount

MountSpec == Init /\ [][MountNext]_vars

\* The page's script constructs the application; handlers and the component
\* code that flush calls set slots.
StartNext ==
    \/ StartHandler
    \/ EndHandler
    \/ RunMicrotask
    \/ FlushUpdate
    \/ UpdateReturn
    \/ PatchReturn
    \/ FlushComponentsDone
    \/ FlushRender
    \/ \E ret \in BOOLEAN : CallbackReturn(ret)
    \/ FlushRenderDone
    \/ \E c \in Comps, i \in Slots : Invalidate(c, i)
    \/ \E om \in [Comps -> BOOLEAN] : new_App(om)

StartSpec == Init /\ [][StartNext]_vars

\* Props flow down: handlers set slots of the root, and a component below it
\* is marked only by the $set its owner's patch calls.
DrainNext ==
    \/ StartHandler
    \/ EndHandler
    \/ RunMicrotask
    \/ FlushUpdate
    \/ UpdateReturn
    \/ PatchReturn
    \/ FlushComponentsDone
    \/ FlushRender
    \/ \E ret \in BOOLEAN : CallbackReturn(ret)
    \/ FlushRenderDone
    \/ \E i \in Slots : HandlerSet(i)
    \/ \E c \in Comps, i \in Slots : ChildSet(c, i)
    \/ \E om \in [Comps -> BOOLEAN] : new_App(om)

DrainSpec == Init /\ [][DrainNext]_vars

\* The steps of flush itself, and the return of the component code it called.
FlushStep ==
    \/ FlushUpdate
    \/ UpdateReturn
    \/ PatchReturn
    \/ FlushComponentsDone
    \/ FlushRender
    \/ CallbackReturn(TRUE)
    \/ FlushRenderDone

\* The runtime with component code that never throws, whose components all
\* register an onMount callback returning a function and an after_update hook.
LiveNext ==
    \/ StartHandler
    \/ EndHandler
    \/ RunMicrotask
    \/ FlushStep
    \/ \E c \in Comps, i \in Slots : Invalidate(c, i)
    \/ \E c \in Comps, target \in BOOLEAN : Construct(c, TRUE, TRUE, target)
    \/ \E c \in Comps, r \in Comps \cup {NoComp} : SvelteComponent_destroy(c, r)

\* The browser serves the microtask queue, an event handler returns, and the
\* synchronous code of flush and of the functions it calls runs to its end.
LiveSpec ==
    /\ Init
    /\ [][LiveNext]_vars
    /\ WF_vars(RunMicrotask)
    /\ WF_vars(EndHandler)
    /\ WF_vars(FlushStep)

\* The program's component code: handlers set slots of any component, a patch
\* marks only the components its fragment owns (by $set), and an onMount
\* callback sets slots of its own component.  The browser serves the microtask
\* queue and the synchronous code of flush runs to its end.
TermNext ==
    \/ StartHandler
    \/ EndHandler
    \/ RunMicrotask
    \/ FlushStep
    \/ CallbackReturn(FALSE)
    \/ \E c \in Comps, i \in Slots : HandlerMark(c, i)
    \/ \E c \in Comps, i \in Slots : ChildSet(c, i)
    \/ \E c \in Comps, i \in Slots : MountSet(c, i)
    \/ \E om \in [Comps -> BOOLEAN] : new_App(om)

TermSpec ==
    /\ Init
    /\ [][TermNext]_vars
    /\ WF_vars(RunMicrotask)
    /\ WF_vars(EndHandler)
    /\ WF_vars(FlushStep)

\* The application as the page runs it: constructed once by new App, after
\* which handlers and the component code that flush calls set slots, destroy
\* components and may throw.
AppNext ==
    \/ StartHandler
    \/ EndHandler
    \/ RunMicrotask
    \/ FlushStep
    \/ CallbackReturn(FALSE)
    \/ \E c \in Comps, i \in Slots : Invalidate(c, i)
    \/ \E om \in [Comps -> BOOLEAN] : new_App(om)
    \/ \E c \in Comps, r \in Comps \cup {NoComp} : SvelteComponent_destroy(c, r)
    \/ Throw

AppSpec == Init /\ [][AppNext]_vars

\* Components constructed one at a time, with or without an afterUpdate hook,
\* with a target (init then calls flush, also from inside a flush) or without.
HookNext ==
    \/ StartHandler
    \/ EndHandler
    \/ RunMicrotask
    \/ FlushStep
    \/ CallbackReturn(FALSE)
    \/ \E c \in Comps, i \in Slots : Invalidate(c, i)
    \/ \E c \in Comps, au \in BOOLEAN, target \in BOOLEAN : Construct(c, FALSE, au, target)

HookSpec == Init /\ [][HookNext]_vars

\* ---------------------------------------------------------------- claims
\* The first entry of dirty_components that has not been updated yet: the
\* running for loop's index (past it once the entry's dirty mask has been taken
\* for the patch), where an exception stopped it, and the start of the array
\* when flush is not in its first for loop.
PendingFrom ==
    CASE pc \in {"components", "update"} -> idx
      [] pc = "patch" -> idx + 1
      [] pc = "idle" /\ thrown = "update" -> idx
      [] pc = "idle" /\ thrown = "patch" -> idx + 1
      [] OTHER -> 1

\* The entries of component c that still await their update.
Pending(c) == {k \in PendingFrom..Len(dirty_components) : dirty_components[k] = c}

Live(c) == fragment[c] = "live"

\* C1 (coalescing): a live component whose slots were marked since its last patch
\* has exactly one entry awaiting update in dirty_components, however many slots
\* were marked, and its dirty mask holds exactly the bits of the marked slots;
\* the mask passed to fragment.p is the union of the slots marked since the
\* component's previous patch, and no patch is called for an empty set of marks.
C1_Coalescing ==
    /\ \A c \in Comps :
          (Live(c) /\ marks[c] # {}) =>
              /\ Cardinality(Pending(c)) = 1
              /\ BitsOf(dirty[c]) = marks[c]
    /\ patch_call # NoCall =>
          /\ patch_call.marks # {}
          /\ BitsOf(patch_call.dirty) = patch_call.marks

\* C1 witness: a patch is running whose mask carries two distinct marked slots.
C1_Witness ==
    /\ pc = "patch"
    /\ Cardinality(patch_call.marks) >= 2
    /\ BitsOf(patch_call.dirty) = patch_call.marks

\* C2 as claimed: dirty_components never holds the same component twice.
C2_Original ==
    \A j, k \in 1..Len(dirty_components) :
        dirty_components[j] = dirty_components[k] => j = k

\* C2 (amended): among the entries of dirty_components that still await their
\* update no component appears twice; an entry that flush has already updated
\* stays in the array until the for loop ends, and the component may be queued
\* again behind it.
C2_PendingOnce == \A c \in Comps : Cardinality(Pending(c)) <= 1

\* C2 witness: a component is queued a second time behind its updated entry.
C2_Witness ==
    \E j, k \in 1..Len(dirty_components) :
        /\ j < k
        /\ dirty_components[j] = dirty_components[k]
        /\ j < PendingFrom
        /\ k >= PendingFrom

\* C3 as claimed: at most one resolved_promise.then(flush) job is pending.
C3_OneMicrotask == microtasks <= 1

\* C4 (reentrancy): at most one flush call is past its guard at any time, and
\* whenever component code runs inside flush the flushing flag is set, so a flush
\* call made there returns at the guard.
C4_NoOverlap ==
    /\ Len(stack) <= 1
    /\ InCallback => flushing
    /\ pc # "idle" => Len(stack) = 1

\* C4 witness: inside a running flush, a flush call has returned at the guard.
C4_Witness == InCallback /\ guard_returns /\ Len(stack) = 1

\* C5 (single fire): no render callback is invoked twice in one flush call.
C5_SingleFire == \A cb \in Callbacks : cb_runs[cb] <= 1

\* C5 witness: a callback that ran in an earlier pass of the running flush is
\* queued again and is about to be skipped.
C5_Witness ==
    /\ pc = "render"
    /\ idx <= Len(render_callbacks)
    /\ render_callbacks[idx] \in seen_callbacks
    /\ cb_runs[render_callbacks[idx]] = 1
    /\ \A j \in 1..(idx - 1) : render_callbacks[j] # render_callbacks[idx]

\* C6 as claimed: no component is updated or patched once a render callback of
\* the flush has been invoked.
C6_Original == pc \in {"update", "patch"} => seen_callbacks = {}

\* C6 (amended): within each pass of the do loop the component loop is complete
\* before the render callbacks run: while they run, every live component with an
\* undelivered mark is in dirty_components for the next pass (it was marked
\* after the component loop emptied the queue), none was left behind.
C6_PassOrder ==
    pc \in {"render", "callback"} =>
        \A c \in Comps :
            (Live(c) /\ marks[c] # {}) =>
                \E k \in 1..Len(dirty_components) : dirty_components[k] = c

\* C6 witness: a render callback runs after a component was updated in this pass.
C6_Witness ==
    /\ pc = "callback"
    /\ \E c \in Comps : HookCb(c) \in seen_callbacks /\ render_callbacks[idx] = HookCb(c)

\* C7 (further pass): flush returns only when no live component has an
\* undelivered mark: a component marked by a render callback is updated and
\* patched in a further pass before flush sets flushing = false.
C7_FurtherPass ==
    [][(flushing /\ ~flushing') =>
          \A c \in Comps : (fragment'[c] = "live") => marks'[c] = {}]_vars

\* C7 witness: in a later pass, after render callbacks ran, a patch delivers marks.
C7_Witness ==
    /\ pc = "patch"
    /\ seen_callbacks # {}
    /\ patch_call.marks # {}

\* C8 as claimed: every make_dirty on a live component is eventually followed by
\* a patch of that component (its marks are delivered while it is live).
C8_Original == \A c \in Comps : (marks[c] # {}) ~> (marks[c] = {} /\ Live(c))

\* C8 (amended): a pending flush job is eventually run, and every make_dirty on a
\* live component is eventually followed by a patch of the component that
\* delivers the mark, or by the destruction of the component.
C8_Liveness ==
    /\ (microtasks > 0) ~> (task = "microtask")
    /\ \A c \in Comps : (marks[c] # {}) ~> (marks[c] = {})

\* C8 witness: the promise job's flush is patching a component with its marks.
C8_Witness ==
    /\ task = "microtask"
    /\ pc = "patch"
    /\ patch_call.marks # {}

\* C9 (exception): the step in which component code throws leaves every queue,
\* flag and component field as it was (nothing is rolled back, flushing stays
\* set) and ends the flush; afterwards no part of flush runs again, so the
\* entries that awaited their update keep their unreset dirty masks.
C9_ThrowAborts ==
    /\ [][(thrown' # thrown) =>
             /\ pc' = "idle"
             /\ stack' = <<>>
             /\ sched' = sched
             /\ comp' = comp
             /\ marks' = marks]_vars
    /\ [](thrown # "none" =>
             /\ pc = "idle"
             /\ \A k \in PendingFrom..Len(dirty_components) :
                   Live(dirty_components[k]) => dirty[dirty_components[k]][1] # Sentinel)

\* C9 witness: an exception escaped the patch of the first of two queued
\* components; the second still awaits its update.
C9_Witness ==
    /\ thrown = "patch"
    /\ Len(dirty_components) >= 2
    /\ idx = 1
    /\ Live(dirty_components[2])
    /\ dirty[dirty_components[1]][1] = Sentinel

\* C10 as claimed: over any number of destroy calls no on_destroy callback of a
\* component runs more than once and its fragment's d is not called more than
\* once.
C10_DestroyOnce ==
    \A c \in Comps :
        /\ destroy_runs[c] <= Len(on_destroy_array[c])
        /\ d_calls[c] <= 1

\* C11 (safe_not_equal): the dirty tracker's not_equal reports a change for
\* every old value that is an object or a function, also against itself, and
\* for every other pair exactly when the two differ, NaN against NaN counting
\* as equal; on primitives other than the pair NaN, NaN it is !==.
C11_SafeNotEqual ==
    sne_call.called =>
        LET a == sne_call.a
            b == sne_call.b
            primitive(x) == x.t \notin {"object", "function"}
        IN  /\ sne_call.r = (IF primitive(a) THEN a # b ELSE TRUE)
            /\ (primitive(a) /\ primitive(b) /\ ~(a = NaN /\ b = NaN)) =>
                  sne_call.r = ~StrictEq(a, b)
            /\ (a = NaN /\ b = NaN) => ~sne_call.r

\* C11 witness: an object compared with itself is reported as changed.
C11_Witness ==
    /\ sne_call.called
    /\ sne_call.a = Obj(1)
    /\ sne_call.b = Obj(1)
    /\ sne_call.r

\* C12 (ready): until ready is set no slot set marks a dirty bit, queues the
\* component or schedules a flush, while its value reaches ctx (through the
\* array instance returns, or written by the callback once $$.ctx is set); once
\* ready is set a slot set that not_equal reports as changed adds exactly that
\* slot's bit to the mask, and one it reports as unchanged leaves the mask alone.
C12_ReadyGate ==
    /\ [](~ready =>
             /\ dirty[InitComp] = <<Sentinel>>
             /\ dirty_components = <<>>
             /\ ~update_scheduled
             /\ microtasks = 0)
    /\ [](~ctx.isnull => ctx.v = locals)
    /\ [][slot_set' # slot_set =>
             LET i == slot_set'.i
                 old == IF dirty[InitComp][1] = Sentinel THEN {} ELSE BitsOf(dirty[InitComp])
             IN  /\ locals'[i] = slot_set'.v
                 /\ (ready /\ sne_call'.r) => BitsOf(dirty'[InitComp]) = old \cup {i}
                 /\ (ready /\ ~sne_call'.r) => dirty' = dirty]_vars

\* C12 witness: the component is ready, both slots hold a value that was set,
\* and only one bit is marked: the other slot was set before ready.
C12_Witness ==
    /\ ready
    /\ \A i \in Slots : ctx.v[i] # Undefined
    /\ dirty[InitComp][1] # Sentinel
    /\ Cardinality(BitsOf(dirty[InitComp])) = 1

C14_TextPatch ==
    /\ (last_p.frag \in {"Player", "Quiz"} /\ last_p.frags = 0) => last_p.w = last_p.changed
    /\ \A k \in Players :
          player[k].live =>
             \A string \in {"-", Player_t3(player[k].ctx), player[k].fr.t3} :
                /\ set_data(player[k].fr.t3, string).w = (IF string = player[k].fr.t3 THEN 0 ELSE 1)
                /\ set_data(player[k].fr.t3, string).node = string

\* C14 witness: Player's patch has run with a bit of its mask set (a new player
\* object with the same position and nationality, the answer hidden) and has
\* written nothing.
C14_Witness ==
    /\ last_p.frag = "Player"
    /\ last_p.bits # 0
    /\ last_p.w = 0
    /\ \E k \in Players : player[k].live /\ player[k].fr.t3 = "-"

\* --- hydration
Hydrated == hydr_target.hydrate_init
Moved == {insert_calls[i].node : i \in 1..Len(insert_calls)}
Unmoved == {claimed[i] : i \in 1..Len(claimed)} \ Moved
Ascending(s) == \A i \in 1..Len(s), j \in 1..Len(s) : i < j => s[i] < s[j]
\* The index sets of the strictly increasing subsequences of s.
Increasing(s) == {S \in SUBSET (1..Len(s)) : \A i \in S, j \in S : i < j => s[i] < s[j]}
LisLength(s) == CHOOSE n \in 0..Len(s) :
                  /\ \E S \in Increasing(s) : Cardinality(S) = n
                  /\ \A S \in Increasing(s) : Cardinality(S) <= n
\* The child lists one insertBefore call away from s, and k calls away from a set of them.
OneMove(s) ==
    UNION {{insertBefore(s, s[i], a) :
               a \in ({s[j] : j \in 1..Len(s)} \ {s[i]}) \cup {NullNode}} :
             i \in 1..Len(s)}
RECURSIVE Within(_, _)
Within(lists, k) ==
    IF k <= 0 THEN lists
    ELSE Within(lists \cup UNION {OneMove(s) : s \in lists}, k - 1)

\* C15: after init_hydrate the children of the target are the claimed
\* children in strictly ascending claim_order, and each insertBefore call
\* was made with the first unmoved node whose claim_order exceeds the moved
\* node's as its anchor, or with null (append) when no unmoved node does.
C15_HydrateOrder ==
    Hydrated =>
      /\ Ascending(hydr_target.childNodes)
      /\ Len(hydr_target.childNodes) = Len(claimed)
      /\ {hydr_target.childNodes[i] : i \in 1..Len(claimed)}
           = {claimed[i] : i \in 1..Len(claimed)}
      /\ \A c \in 1..Len(insert_calls) :
           LET after == {i \in 1..Len(claimed) :
                           /\ claimed[i] \in Unmoved
                           /\ claimed[i] > insert_calls[c].node}
           IN  insert_calls[c].anchor =
                 IF after = {} THEN NullNode
                 ELSE claimed[CHOOSE i \in after : \A k \in after : i <= k]

\* A list that was out of order has been reordered, with a node put before an
\* unmoved node and a node appended.
C15_Witness ==
    /\ Hydrated
    /\ ~Ascending(claimed)
    /\ \E c \in 1..Len(insert_calls) : insert_calls[c].anchor # NullNode
    /\ \E c \in 1..Len(insert_calls) : insert_calls[c].anchor = NullNode

\* C16: the nodes init_hydrate does not move are a longest strictly
\* increasing subsequence of the claim orders, it makes exactly (number of
\* children - LIS length) insertBefore calls, each on a different node, and no
\* smaller number of insertBefore calls sorts the children; for [2,0,1,4,3]
\* the nodes 0, 1 and 3 stay and 2 calls are made.
C16_HydrateMinimal ==
    Hydrated =>
      /\ {i \in 1..Len(claimed) : claimed[i] \in Unmoved} \in Increasing(claimed)
      /\ Cardinality(Unmoved) = LisLength(claimed)
      /\ Len(insert_calls) = Len(claimed) - LisLength(claimed)
      /\ Cardinality(Moved) = Len(insert_calls)
      /\ Len(insert_calls) > 0 =>
           hydr_target.childNodes \notin Within({claimed}, Len(insert_calls) - 1)
      /\ claimed = <<2, 0, 1, 4, 3>> =>
           /\ Unmoved = {0, 1, 3}
           /\ Len(insert_calls) = 2
           /\ hydr_target.childNodes = <<0, 1, 2, 3, 4>>

\* The children [2,0,1,4,3] have been hydrated.
C16_Witness ==
    /\ Hydrated
    /\ claimed = <<2, 0, 1, 4, 3>>
    /\ Len(insert_calls) = 2

\* C17: init_hydrate on children already in ascending claim_order makes no
\* insertBefore call, and a call on a target whose hydrate_init is set
\* changes neither the children nor the flag and makes no insertBefore call.
C17_HydrateIdempotent ==
    /\ [](Hydrated /\ Ascending(claimed) =>
            /\ insert_calls = <<>>
            /\ hydr_target.childNodes = claimed)
    /\ [][Hydrated => /\ hydr_target' = hydr_target
                      /\ insert_calls' = insert_calls
                      /\ claimed' = claimed]_vars

\* A second call has been made on a target whose several children were
\* claimed in order.
C17_Witness ==
    /\ hydrate_calls = 2
    /\ Len(claimed) >= 3
    /\ Ascending(claimed)

\* --- transitions
\* The last call was a transition_out that got past its guards: on a block
\* (every block has an o hook) that was not outroing.
OutroStarted ==
    /\ last_call.op = "transition_out"
    /\ last_call.block # NoBlock
    /\ last_call.block \notin last_call.outroing
\* The hook and callback calls of kind e the last call made on block.
Calls(e, block) ==
    {i \in 1..Len(last_call.events) :
       last_call.events[i].e = e /\ last_call.events[i].block = block}
\* What such a call does apart from the remaining count.
OutroRegistered ==
    /\ ~last_call.thrown
    /\ last_call.block \in outroing
    /\ LET before == last_call.outros[1].c
           after == outros[1].c
       IN  /\ Len(after) > Len(before)
           /\ SubSeq(after, 1, Len(before)) = before
           /\ after[Len(before) + 1]
                = Closure(last_call.block, last_call.detach, last_call.callback)
           \* every further closure was appended by a transition_out that o made
           /\ Len(after) - Len(before)
                = Cardinality({i \in 1..Len(last_call.events) : last_call.events[i].e = "o"})
    /\ outros[1].p = last_call.outros[1].p
    /\ last_call.events # <<>>
    /\ last_call.events[1] = Event("o", last_call.block, last_call.local)
    /\ Cardinality(Calls("o", last_call.block)) = 1

ClosuresOf(block) ==
    {i \in 1..Len(last_call.outros[1].c) : last_call.outros[1].c[i].block = block}
WithCallback(block) ==
    {i \in ClosuresOf(block) : last_call.outros[1].c[i].callback}
Checked == last_call.op = "check_outros" /\ ~last_call.thrown

\* C19: when check_outros returns, every closure of the group has run: each
\* block with a closure in the group is out of outroing, each completion
\* callback has been called once per transition_out that registered it (so
\* exactly once for each of two distinct blocks passed to transition_out
\* once each), and d(1) has been called on the block just before its
\* callback exactly when detach was set.
C19_GroupResolution ==
    Checked =>
      \A block \in Blocks :
        /\ ClosuresOf(block) # {} => block \notin outroing
        /\ Cardinality(Calls("callback", block)) = Cardinality(WithCallback(block))
        /\ Cardinality(Calls("d", block))
             = Cardinality({i \in WithCallback(block) : last_call.outros[1].c[i].detach})
        /\ \A i \in Calls("d", block) :
             /\ i < Len(last_call.events)
             /\ last_call.events[i].arg = 1
             /\ last_call.events[i + 1] = Event("callback", block, 0)

\* check_outros has resolved a group of two distinct blocks with callbacks,
\* one of them with detach.
C19_Witness ==
    /\ Checked
    /\ \E a \in Blocks, b \in Blocks :
         /\ a # b
         /\ Cardinality(WithCallback(a)) = 1
         /\ Cardinality(WithCallback(b)) = 1
         /\ Cardinality(Calls("callback", a)) = 1
         /\ Cardinality(Calls("callback", b)) = 1
         /\ Cardinality(Calls("d", a)) = 1
         /\ Cardinality(Calls("d", b)) = 0
         /\ outroing = {}

\* The values of p from the outermost group down to group.
RECURSIVE Chain(_)
Chain(group) == IF group = NoGroup THEN <<>> ELSE Append(Chain(group[1].p), group[1].p)

\* C20: group_outros makes a new group {r: 0, c: [], p: the previous
\* current group} current; check_outros makes the current group's parent
\* current; and the groups that are open are, from the outermost in, exactly
\* those whose group_outros has not been answered by a check_outros, each
\* with the parent that was current when it was opened: a balanced sequence
\* of calls leaves outros as it found it.
C20_GroupStack ==
    /\ last_call.op = "group_outros" =>
         outros = <<[r |-> 0, c |-> <<>>, p |-> last_call.outros]>>
    /\ Checked => outros = last_call.outros[1].p
    /\ Chain(outros) = entered

\* A nested group that held a closure has been checked, and the group that
\* is current again holds the closure it held before.
C20_Witness ==
    /\ Checked
    /\ Depth(last_call.outros) = 2
    /\ last_call.outros[1].c # <<>>
    /\ outros # NoGroup
    /\ outros[1].c # <<>>

\* C21: a transition_out on a block that is in outroing returns without
\* appending a closure, without calling o and without changing outroing; and
\* when a group resolves, the completion callback and d(1) of each block are
\* executed at most once, whatever transition_out and transition_in calls
\* were made on the block inside the group.
C21_NoDoubleResolution ==
    /\ (/\ last_call.op = "transition_out"
        /\ last_call.block \in last_call.outroing) =>
         /\ outros = last_call.outros
         /\ outroing = last_call.outroing
         /\ last_call.events = <<>>
    /\ Checked =>
         \A block \in Blocks :
           /\ Cardinality(Calls("callback", block)) <= 1
           /\ Cardinality(Calls("d", block)) <= 1

\* --- the conditional block of Quiz
\* A step that is a call of Quiz's patch (the handlers leave a mark pending,
\* the patches of the other components name themselves in last_p).
QuizPatchStep ==
    /\ last_p'.frag = "Quiz"
    /\ Quiz'.dirty = 0
    /\ Quiz'.ctx = Quiz.ctx
    /\ Fa' = Fa
BranchLive ==
    /\ if_block.exists
    /\ input.live
    /\ \A k \in Players : player[k].live
BranchGone ==
    /\ if_block = no_block
    /\ ~input.live
    /\ \A k \in Players : ~player[k].live

\* C22: the {#if quiz} block of Quiz and its child components exist
\* together or not at all, and not before createQuiz has run; a patch with
\* quiz falsy and a block present destroys the block and every child
\* component in that same patch and clears if_block; a patch with quiz
\* truthy and no block creates and mounts the block and its children from
\* the ctx of that patch; a patch with quiz truthy and a block present keeps
\* it, and one with quiz falsy and no block creates none.
C22_ConditionalBlock ==
    /\ [](BranchLive \/ BranchGone)
    /\ [](Quiz.answeredPool = <<>> => BranchGone)
    /\ [][QuizPatchStep =>
            /\ (Quiz.ctx.quiz = NoQuiz /\ BranchLive) =>
                 /\ BranchGone'
                 /\ last_p'.frags = NumPlayers + 2
            /\ (Quiz.ctx.quiz = NoQuiz /\ BranchGone) =>
                 /\ BranchGone'
                 /\ last_p'.frags = 0
            /\ (Quiz.ctx.quiz # NoQuiz /\ BranchGone) =>
                 /\ BranchLive'
                 /\ if_block'.current
                 /\ if_block' = create_if_block_Quiz(Quiz.ctx)
                 /\ input'.ctx = Input_props(Quiz.ctx)
                 /\ \A k \in Players : player'[k].ctx = Player_props(Quiz.ctx, k)
                 /\ last_p'.frags = NumPlayers + 2
            /\ (Quiz.ctx.quiz # NoQuiz /\ BranchLive) =>
                 /\ BranchLive'
                 /\ last_p'.frags = 0]_vars

\* A block that showed a quiz has been destroyed by the patch that followed
\* a createQuiz call on an empty pool.
C22_Witness ==
    /\ last_p.frag = "Quiz"
    /\ last_p.frags = NumPlayers + 2
    /\ Quiz.ctx.quiz = NoQuiz
    /\ Len(Quiz.answeredPool) = NumQuizzes + 1
    /\ Quiz.dirty = 0
    /\ BranchGone

\* --- onMount
\* A step in which flush, or an init on the stack of its callers, is not
\* inside the construction of a component: no init is waiting for a flush it
\* called (line 390), and the step is not itself a construction.
OutsideInit ==
    /\ \A k \in 1..Len(stack) : ~stack[k].restore
    /\ fragment' = fragment

\* C23: outside the construction of a component no step adds a callback to
\* the on_mount list of any component: onMount called after init has
\* returned, from a render callback or from code that flush runs while it
\* updates a component throws and pushes nothing.
C23_OnMountOutsideInit ==
    [][OutsideInit =>
         \A c \in Comps : Len(on_mount'[c]) <= Len(on_mount[c])]_vars

\* A step that calls $set.
SetCalled == set_call'.k # set_call.k

\* C24 ($set): a $set on a component that defines $$set, with props that are not
\* empty, sets skip_bound and sends each supplied prop, once, through the
\* $$invalidate callback while skip_bound is true: the callback compares the
\* value with ctx's, writes it to ctx, and marks the component dirty (bit set,
\* component queued, flush scheduled) when the comparison reports a change and
\* ready is set; skip_bound is false again only when every supplied prop has
\* been sent.  A $set with empty props, or on a component without $$set, leaves
\* the component and the scheduler as they were.
C24_SetProps ==
    /\ [](~skip_bound => set_pending = <<>>)
    /\ [][SetCalled =>
             LET props == set_call'.props
                 S == {i \in Slots : props[i] # Absent}
             IN  IF set_call'.has_set /\ S # {}
                   THEN /\ skip_bound'
                        /\ Len(set_pending') = Cardinality(S)
                        /\ {set_pending'[k] : k \in 1..Len(set_pending')} = S
                        /\ UNCHANGED <<initv, control, sched, comp>>
                   ELSE UNCHANGED <<initv, control, sched, comp, skip_bound, set_pending>>]_vars
    /\ [][(skip_bound /\ set_pending' # set_pending) =>
             LET i == Head(set_pending)
                 v == set_call.props[i]
                 changed == safe_not_equal(ctx.v[i], v)
             IN  /\ skip_bound'
                 /\ set_pending' = Tail(set_pending)
                 /\ slot_set' = [i |-> i, v |-> v, k |-> 1 - slot_set.k, skip |-> TRUE]
                 /\ sne_call' = [called |-> TRUE, a |-> ctx.v[i], b |-> v, r |-> changed]
                 /\ ctx' = [ctx EXCEPT !.v[i] = v]
                 /\ IF changed /\ ready
                      THEN /\ dirty'[InitComp][1] # Sentinel
                           /\ i \in BitsOf(dirty'[InitComp])
                           /\ \E k \in 1..Len(dirty_components') : dirty_components'[k] = InitComp
                           /\ update_scheduled'
                      ELSE UNCHANGED <<dirty, dirty_components, update_scheduled, microtasks>>]_vars
    /\ [][(skip_bound /\ ~skip_bound') =>
             /\ set_pending = <<>>
             /\ UNCHANGED <<initv, control, sched, comp>>]_vars

\* C24 witness: a $set that supplied both props has returned; both values are
\* in ctx, and one bit is marked: the other prop was supplied with the value
\* ctx already held.
C24_Witness ==
    /\ set_call.called
    /\ set_call.has_set
    /\ ~skip_bound
    /\ slot_set.skip
    /\ \A i \in Slots : set_call.props[i] # Absent /\ ctx.v[i] = set_call.props[i]
    /\ dirty[InitComp][1] # Sentinel
    /\ Cardinality(BitsOf(dirty[InitComp])) = 1

\* The entries of list that are callback.
Occurrences(list, callback) == Cardinality({k \in 1..Len(list) : list[k] = callback})

\* The $on calls of callback for type whose unsubscribe function was not called.
Subscribed(type, callback) ==
    {n \in 1..Len(unsubs) :
        /\ unsubs[n].type = type
        /\ unsubs[n].callback = callback
        /\ ~unsubs[n].called}

\* C25 ($on): the list of an event type holds a callback once for each $on call
\* that registered it there and whose unsubscribe function has not been called,
\* however often the unsubscribe functions of the other calls were called.
C25_Unsubscribe ==
    \A type \in Types, callback \in Listeners :
        Occurrences(callbacks[type], callback) = Cardinality(Subscribed(type, callback))

\* --- the team answer, end to end
\* The team question is asked, 'TSM' is in the form and 'tsm' is accepted.
TeamTyped ==
    /\ Quiescent
    /\ input.live
    /\ Quiz.ctx.currentQ = "team"
    /\ Quiz.ctx.answerForm["team"].value = "TSM"
    /\ "tsm" \in Quiz.ctx.answerForm["team"].answer
    /\ ~Quiz.ctx.answerForm["team"].correct

\* Quiz is marked after the team answer was accepted and its patch has not run.
TeamPending ==
    /\ Quiz.ctx.quiz # NoQuiz
    /\ Quiz.ctx.answerForm["team"].correct
    /\ BitAnd(Quiz.dirty, 2) # 0
    /\ if_block.exists
    /\ if_block.fr.t7 = "-"
    /\ input.live

\* C26 (end to end): with the team question asked, 'TSM' typed and 'tsm' among
\* the accepted answers, handleInputEnter('team') sets answerForm.team.correct
\* and marks answerForm; the patch of Quiz that follows changes the team text
\* from '-' to the team's abbreviation with one DOM write and creates or
\* destroys no fragment: the Input stays the same component with the same
\* nodes, and receives the new question and value through $set, which marks it.
C26_TeamAnswer ==
    /\ [](TeamTyped =>
             \A n \in picks(Quiz) :
                LET Q == handleInputEnter(Quiz, "team", n)
                IN  /\ Q.ctx.answerForm["team"].correct
                    /\ BitAnd(Q.dirty, 2) # 0
                    /\ Q.ctx.quiz = Quiz.ctx.quiz)
    /\ [][(TeamPending /\ QuizPatchStep) =>
             /\ if_block'.exists
             /\ if_block'.fr.t7 = data(Quiz.ctx.quiz).team.abbr.s
             /\ last_p'.changed = 1
             /\ last_p'.w = 1
             /\ last_p'.frags = 0
             /\ input'.live
             /\ input'.fr = input.fr
             /\ input'.ctx = Input_props(Quiz.ctx)
             /\ (input.ctx.question # Quiz.ctx.currentQ => BitAnd(input'.dirty, 2) # 0)]_vars

\* C26 witness: the patch of Quiz has run after 'TSM' was accepted: the team
\* text shows TSM, and the Input, still holding the nodes it was created with,
\* has been given the next question and is marked.
C26_Witness ==
    /\ last_p.frag = "Quiz"
    /\ Quiz.dirty = 0
    /\ Quiz.ctx.answerForm["team"].correct
    /\ Quiz.ctx.answerForm["team"].value = "TSM"
    /\ if_block.fr.t7 = "TSM"
    /\ input.live
    /\ input.ctx.question = "year"
    /\ input.fr.placeholder = Str("team")
    /\ BitAnd(input.dirty, 2) # 0

\* --- construction with a target
\* The flush that an init called returns to it.
InitFlushReturns ==
    /\ pc = "render"
    /\ stack # <<>>
    /\ Top.restore
    /\ Len(stack') < Len(stack)

\* C27 (mount on construct): the flush that init calls for a component
\* constructed with a target runs inside the constructor's task, before any
\* promise job; when it returns to init, the mount closure of every component of
\* the tree has run exactly once and emptied the component's on_mount list, every
\* component those callbacks (or the patches they caused) marked has been
\* updated and patched, and nothing is left queued; so outside the constructor
\* no on_mount callback is ever pending.
C27_MountOnConstruct ==
    /\ []((stack # <<>> /\ stack[1].restore) => task = "handler")
    /\ [](pc = "idle" => \A c \in Comps : on_mount[c] = <<>>)
    /\ [][InitFlushReturns =>
             /\ task' = "handler"
             /\ pc' = "idle"
             /\ ~flushing'
             /\ dirty_components' = <<>>
             /\ render_callbacks' = <<>>
             /\ \A c \in Comps :
                   /\ fragment'[c] = "live"
                   /\ cb_runs[MountCb(c)] = 1
                   /\ on_mount'[c] = <<>>
                   /\ marks'[c] = {}
                   /\ dirty'[c] = <<Sentinel>>]_vars

\* C27 witness: the flush of the root's init is about to return; the child's
\* on_mount callback has run, returned a function and marked a component (a
\* promise job is scheduled), and that component has been patched already.
C27_Witness ==
    /\ pc = "render"
    /\ idx > Len(render_callbacks)
    /\ ~MorePasses
    /\ stack # <<>>
    /\ Top.restore
    /\ task = "handler"
    /\ update_scheduled
    /\ microtasks = 1
    /\ on_destroy_array[NumComps] # <<>>
    /\ \A c \in Comps : cb_runs[MountCb(c)] = 1 /\ marks[c] = {} /\ dirty[c] = <<Sentinel>>

\* --- the sentinel
\* A step in which make_dirty is called on component c while its mask is [-1]:
\* c is pushed on dirty_components.
MarkedFromSentinel(c) ==
    /\ dirty[c][1] = Sentinel
    /\ Len(dirty_components') = Len(dirty_components) + 1
    /\ dirty_components'[Len(dirty_components')] = c

\* A step in which update calls the patch of a component.
PatchCalled == pc # "patch" /\ pc' = "patch"

\* C28 (sentinel): make_dirty on a component whose mask is [-1] leaves a mask
\* without the sentinel in which exactly one bit is set, the bit of the slot
\* being marked; and when update calls a patch, the component's mask is [-1]
\* again, the patch is given the mask as it was, and that mask has no bit of
\* a slot that was not marked since the component's previous update.
C28_Sentinel ==
    /\ [][\A c \in Comps :
             MarkedFromSentinel(c) =>
                /\ \A k \in 1..Len(dirty'[c]) : dirty'[c][k] # Sentinel
                /\ Cardinality(BitsOf(dirty'[c])) = 1
                /\ Live(c) => BitsOf(dirty'[c]) = marks'[c] \ marks[c]]_vars
    /\ [][PatchCalled =>
             LET c == patch_call'.c
             IN  /\ dirty[c][1] # Sentinel
                 /\ dirty'[c] = <<Sentinel>>
                 /\ patch_call'.dirty = dirty[c]
                 /\ BitsOf(patch_call'.dirty) \subseteq patch_call'.marks]_vars

\* C28 witness: a patch runs with a mask of one bit, the only slot marked
\* since the sentinel; the other slot's bit is clear, and the component's mask
\* is the sentinel again.
C28_Witness ==
    /\ pc = "patch"
    /\ Cardinality(patch_call.marks) = 1
    /\ BitsOf(patch_call.dirty) = patch_call.marks
    /\ BitsOf(patch_call.dirty) # Slots
    /\ dirty[patch_call.c] = <<Sentinel>>

\* --- quiescence
\* flush returns to its caller (an exception leaves flush from component
\* code, never from the foot of the do loop).
FlushReturns ==
    /\ pc = "render"
    /\ stack # <<>>
    /\ Len(stack') < Len(stack)

\* C29 (quiescence): when flush returns normally, dirty_components,
\* binding_callbacks, render_callbacks, flush_callbacks and seen_callbacks are
\* empty, and flushing and update_scheduled are false.
C29_Quiescence ==
    [][FlushReturns =>
          /\ dirty_components' = <<>>
          /\ binding_callbacks' = <<>>
          /\ render_callbacks' = <<>>
          /\ flush_callbacks' = <<>>
          /\ seen_callbacks' = {}
          /\ ~flushing'
          /\ ~update_scheduled']_vars

\* C29 witness: the flush that an init called has returned to the handler after
\* a render callback marked a component: the queues are empty and both flags
\* are false, while the promise job that the mark scheduled is still to run.
C29_Witness ==
    /\ task = "handler"
    /\ pc = "idle"
    /\ thrown = "none"
    /\ microtasks = 1
    /\ ~update_scheduled
    /\ ~flushing
    /\ dirty_components = <<>>
    /\ render_callbacks = <<>>
    /\ seen_callbacks = {}
    /\ on_destroy_array[1] # <<>>

\* --- parent to child
\* C30 (one pass): a component that is marked while a patch runs gets an
\* entry in dirty_components behind the entry being patched; the first for
\* loop of flush ends only when every live component's marks have been
\* delivered to its patch; so a component that only its owner's patch marks
\* (through $set) never carries a mark outside that loop: it is updated and
\* patched in the loop in which its owner was, before a render callback runs.
C30_SameDrain ==
    /\ [][\A c \in Comps :
             (pc = "patch" /\ marks[c] # marks'[c] /\ marks[c] \subseteq marks'[c]) =>
                 \E k \in (idx + 1)..Len(dirty_components') : dirty_components'[k] = c]_vars
    /\ [][(pc = "components" /\ pc' = "render") =>
             \A c \in Comps : Live(c) => (marks[c] = {} /\ dirty[c] = <<Sentinel>>)]_vars
    /\ [](\A c \in Comps :
             (~IsRoot(c) /\ marks[c] # {}) =>
                 /\ flushing
                 /\ pc \in {"components", "update", "patch"}
                 /\ Cardinality(Pending(c)) = 1)

\* C30 witness: the promise job's flush patches the child with the mark its
\* owner's patch gave it, in the first for loop in which the owner was patched
\* and before any render callback of this flush has run.
C30_Witness ==
    /\ task = "microtask"
    /\ pc = "patch"
    /\ patch_call.c = 2
    /\ patch_call.marks # {}
    /\ idx = 2
    /\ dirty_components = <<1, 2>>
    /\ seen_callbacks = {}

\* --- destroyed components
\* A step in which update calls $$.update() of a component.
UpdateCalled == pc # "update" /\ pc' = "update"

\* C31 (destroyed components): $$.update and the fragment's patch are called
\* only for a component whose fragment is not null: a component that
\* destroy_component has finished with is skipped by flush, whether it was in
\* dirty_components when it was destroyed or was marked afterwards, and its
\* mask is left as it is.
C31_DestroyedSkipped ==
    /\ [][UpdateCalled => fragment[dirty_components'[idx']] = "live"]_vars
    /\ [][PatchCalled => fragment[patch_call'.c] = "live"]_vars
    /\ [][(pc = "components" /\ idx <= Len(dirty_components)
              /\ fragment[dirty_components[idx]] = "null") =>
             /\ pc' \in {"components", "idle"}
             /\ dirty' = dirty
             /\ patch_call' = NoCall]_vars

\* C31 witness: flush has passed over the entry of a destroyed component; its
\* mask still holds the marks, since update did not run.
C31_Witness ==
    /\ pc = "components"
    /\ idx = 2
    /\ fragment[dirty_components[1]] = "null"
    /\ dirty[dirty_components[1]][1] # Sentinel
    /\ thrown = "none"

\* --- after an exception
\* C32 (flushing stays set): once component code that flush called has
\* thrown, flushing is true in every later state; a promise job that runs
\* afterwards returns at the guard and changes nothing, and no later step
\* calls $$.update or a patch or resets a component's mask, whatever is
\* marked in the meantime.
C32_FlushingStuck ==
    /\ [](thrown # "none" => (flushing /\ stack = <<>>))
    /\ [][thrown # "none" =>
             /\ thrown' = thrown
             /\ pc' = "idle"
             /\ patch_call' = NoCall
             /\ \A c \in Comps : dirty[c][1] # Sentinel => dirty'[c][1] # Sentinel]_vars
    /\ [][(thrown # "none" /\ microtasks' < microtasks) =>
             /\ task' = "none"
             /\ UNCHANGED <<sched, comp, marks>>]_vars

\* C32 witness: after the exception a handler has marked a live component and
\* the promise job it scheduled has come and gone: the component is still
\* queued with its mark, and flushing is still set.
C32_Witness ==
    /\ thrown # "none"
    /\ task = "none"
    /\ microtasks = 0
    /\ flushing
    /\ update_scheduled
    /\ \E c \in Comps : Live(c) /\ marks[c] # {} /\ Pending(c) # {}

\* --- termination
\* C33 (termination): in the program, where a patch marks only components
\* below its own and an onMount callback marks its own component, every flush
\* that starts ends (flushing is reset); on the way dirty_components never holds
\* more entries than there are components, and no render callback runs twice
\* in one flush.
C33_FlushTerminates ==
    /\ flushing ~> ~flushing
    /\ [](Len(dirty_components) <= NumComps)
    /\ [](\A cb \in Callbacks : cb_runs[cb] <= 1)

\* C33 witness: the last pass of the flush that init called: an onMount
\* callback marked its component in the first pass (a promise job is
\* scheduled), every mark has been delivered in a later pass, and the
\* render-callback loop of this pass is over with nothing queued.
C33_Witness ==
    /\ flushing
    /\ pc = "render"
    /\ idx > Len(render_callbacks)
    /\ ~MorePasses
    /\ cb_runs[MountCb(1)] = 1
    /\ update_scheduled
    /\ task = "handler"
    /\ \A c \in Comps : dirty[c] = <<Sentinel>> /\ marks[c] = {}

\* --- the sentinel and the words of the mask
\* The slots whose bit is set in the words of d.
WideBits(d) ==
    {i \in 0..(WordBits * Len(d) - 1) : BitOf(d[(i \div WordBits) + 1], i % WordBits) = 1}

\* The mask of a marked component: no word is the sentinel, every word is a
\* non-negative number below 2^31 - that is, bit 31 is clear - and the bits set
\* are those of the marked slots.
WideMaskSound ==
    wide.marks # {} =>
        /\ \A k \in 1..Len(wide.dirty) :
              wide.dirty[k] # Sentinel /\ wide.dirty[k] >= 0 /\ wide.dirty[k] <= 2147483647
        /\ WideBits(wide.dirty) = wide.marks

\* C34 as claimed: a marked component's mask is sound, and dirty[0] is -1
\* exactly when the component has no entry awaiting update.
C34_AsStated ==
    /\ WideMaskSound
    /\ (wide.dirty[1] = Sentinel) <=> (wide.queued = 0)

\* C34 (amended): a marked component's mask is sound, whatever slots are marked;
\* for a component that has not been destroyed, dirty[0] is -1 exactly when it
\* has no entry awaiting update; a destroyed component has at most one entry,
\* and none once its mask is not the sentinel and flush has passed.
C34_SentinelUnreachable ==
    /\ WideMaskSound
    /\ wide.live => ((wide.dirty[1] = Sentinel) <=> (wide.queued = 0))
    /\ wide.queued <= 1
    /\ wide.queued = 1 => wide.dirty[1] # Sentinel

\* C34 witness: every slot of the first word and the last slot of the second
\* are marked: the first word is 2^31 - 1, not -1, and the component is queued.
C34_Witness ==
    /\ wide.live
    /\ wide.queued = 1
    /\ Len(wide.dirty) = 2
    /\ wide.dirty[1] = 2147483647
    /\ wide.dirty[2] = 1073741824

\* --- the answer check
\* The key the Input hands to handleInputEnter: question.toLowerCase()
EnterKey == toLowerCase(input.ctx.question)

\* The typed value of key is, lower-cased, an accepted answer.
TypedRight(key) ==
    LET form == Quiz.ctx.answerForm
    IN  IF key = "team"
          THEN toLowerCase(form.team.value) \in form.team.answer
          ELSE form[key].answer = {toLowerCase(form[key].value)}

\* C35: Enter on a wrong answer leaves Quiz as it is - answerForm, qs, currentQ,
\* the pool and the dirty mask, so no flush is scheduled; the questions advance
\* only on an Enter whose typed value is right for the question asked, and only
\* then does a correct flag of that key become true; a correct flag that is
\* true becomes false only in a handler in which createQuiz has reset the form.
C35_AnswerCheck ==
    /\ []((Quiescent /\ input.live /\ ~TypedRight(EnterKey)) =>
             \A n \in picks(Quiz) : handleInputEnter(Quiz, EnterKey, n) = Quiz)
    /\ [][/\ Quiz'.qs # Quiz.qs => input.live /\ TypedRight(EnterKey)
          /\ \A key \in Keys :
                /\ (~Quiz.ctx.answerForm[key].correct /\ Quiz'.ctx.answerForm[key].correct) =>
                      /\ key = EnterKey
                      /\ TypedRight(key)
                      /\ Quiz'.qs = Tail(Quiz.qs)
                      /\ Quiz'.ctx.answerForm = [Quiz.ctx.answerForm EXCEPT ![key].correct = TRUE]
                /\ (Quiz.ctx.answerForm[key].correct /\ ~Quiz'.ctx.answerForm[key].correct) =>
                      /\ Len(Quiz'.answeredPool) = Len(Quiz.answeredPool) + 1
                      /\ Quiz'.ctx.answerForm[key] = defaultAnswerForm[key]
                                \/ Quiz'.ctx.answerForm[key].answer = answers(Quiz'.ctx.quiz)[key]]_vars

\* C35 witness: the team (accepted by includes) and the year (accepted by ===)
\* were answered, "x" is typed for the split and a patch has run since: Enter
\* on it changes nothing.
C35_Witness ==
    /\ Quiescent
    /\ input.live
    /\ Quiz.ctx.answerForm.team.correct
    /\ Quiz.ctx.answerForm.year.correct
    /\ Quiz.ctx.currentQ = "split"
    /\ EnterKey = "split"
    /\ Quiz.ctx.answerForm.split.value = "x"
    /\ ~TypedRight("split")

\* --- the pool of quizzes
\* C36 as claimed: answeredPool contains no duplicate.
C36_AsStated ==
    \A i, j \in 1..Len(Quiz.answeredPool) :
        i < j => Quiz.answeredPool[i] # Quiz.answeredPool[j]

\* C36 (amended): no entry of data is in answeredPool twice, so none is served
\* twice; the quiz shown is the last entry; what createQuiz appends once every
\* entry has been served is undefined, after all the entries of data, and it
\* may be appended more than once.
C36_NoQuizTwice ==
    /\ \A i, j \in 1..Len(Quiz.answeredPool) :
          (i < j /\ Quiz.answeredPool[i] = Quiz.answeredPool[j]) =>
              Quiz.answeredPool[i] = NoQuiz
    /\ \A i \in 1..Len(Quiz.answeredPool) :
          Quiz.answeredPool[i] = NoQuiz => i > NumQuizzes
    /\ Quiz.answeredPool # <<>> => Quiz.ctx.quiz = Quiz.answeredPool[Len(Quiz.answeredPool)]

\* C36 witness: every entry of data has been served and the last one is on
\* screen.
C36_Witness ==
    /\ Quiescent
    /\ Len(Quiz.answeredPool) = NumQuizzes
    /\ pool(Quiz) = {}
    /\ Quiz.ctx.quiz # NoQuiz
    /\ BranchLive
    /\ Quiz.qs = Questions

\* --- the question asked
\* The questions from the m-th on.
QuestionsFrom(m) == SubSeq(Questions, m, Len(Questions))

\* C37 as claimed: currentQ is qs[0] in every state between event handlers.
C37_AsStated == Quiz.ctx.currentQ = Quiz.qs[1]

\* C37 (amended): qs is always a non-empty tail of the list of questions, it
\* changes only by losing its head or, from its last element, by being
\* refilled, and currentQ is qs[0] whenever a quiz is defined and whenever qs
\* is not full.  The exception: when the last quiz of the pool is completed, qs
\* is refilled but createQuiz throws before currentQ is assigned, and currentQ
\* stays the last question for ever.
C37_CurrentIsHead ==
    /\ [](/\ \E m \in 1..Len(Questions) : Quiz.qs = QuestionsFrom(m)
          /\ (Quiz.ctx.quiz # NoQuiz \/ Quiz.qs # Questions) => Quiz.ctx.currentQ = Quiz.qs[1]
          /\ Quiz.ctx.currentQ # Quiz.qs[1] =>
                /\ Quiz.ctx.currentQ = Questions[Len(Questions)]
                /\ Quiz.qs = Questions
                /\ pool(Quiz) = {})
    /\ [][Quiz'.qs # Quiz.qs =>
             \/ Quiz'.qs = Tail(Quiz.qs) /\ Quiz'.ctx.currentQ = Quiz'.qs[1]
             \/ /\ Len(Quiz.qs) = 1
                /\ Quiz'.qs = Questions
                /\ Len(Quiz'.answeredPool) = Len(Quiz.answeredPool) + 1
                /\ Quiz'.ctx.quiz # NoQuiz => Quiz'.ctx.currentQ = "team"]_vars

\* C37 witness: the last question of a quiz has just been answered: a second
\* quiz is defined, qs is full again and currentQ is marked and is "team".
C37_Witness ==
    /\ Len(Quiz.answeredPool) = 2
    /\ Quiz.ctx.quiz # NoQuiz
    /\ Quiz.qs = Questions
    /\ Quiz.ctx.currentQ = "team"
    /\ BitAnd(Quiz.dirty, 4) = 4

\* --- Skip
\* No question of the form is marked correct.
NoneCorrect(form) == \A key \in Keys : ~form[key].correct

\* The questions already passed: those not in qs.
Passed(Q) == Keys \ {Q.qs[m] : m \in 1..Len(Q.qs)}

\* C38: a handler that pushes to answeredPool is either createQuiz called by
\* Skip (or onMount), which leaves qs and currentQ as they are, empties every
\* value and correct flag and, when it finds a quiz, stores its answers; or the
\* Enter that answers the last question of qs.  A correct flag becomes true only
\* for the head of qs, so after a Skip in the middle of a quiz the flags of the
\* questions passed stay false until the next createQuiz, and the questions
\* still to be asked are never marked correct.
C38_SkipKeepsQuestion ==
    /\ [](\A key \in Keys \ Passed(Quiz) : ~Quiz.ctx.answerForm[key].correct)
    /\ [][/\ Len(Quiz'.answeredPool) > Len(Quiz.answeredPool) =>
                \/ /\ Quiz'.qs = Quiz.qs
                   /\ Quiz'.ctx.currentQ = Quiz.ctx.currentQ
                   /\ NoneCorrect(Quiz'.ctx.answerForm)
                   /\ \A key \in Keys : Quiz'.ctx.answerForm[key].value = ""
                   /\ Quiz'.ctx.quiz # NoQuiz =>
                         \A key \in Keys :
                            Quiz'.ctx.answerForm[key].answer = answers(Quiz'.ctx.quiz)[key]
                \/ /\ Len(Quiz.qs) = 1
                   /\ input.live
                   /\ TypedRight(EnterKey)
                   /\ Quiz'.qs = Questions
          /\ \A key \in Keys :
                (~Quiz.ctx.answerForm[key].correct /\ Quiz'.ctx.answerForm[key].correct) =>
                    key = Quiz.qs[1] /\ key \notin Passed(Quiz)]_vars

\* C38 witness: the second quiz was created by a Skip when two questions of the
\* first had been passed: it is asked from the third question on, and the flags
\* of the first two are false.
C38_Witness ==
    /\ Len(Quiz.answeredPool) = 2
    /\ Quiz.ctx.quiz # NoQuiz
    /\ Quiz.qs = QuestionsFrom(3)
    /\ Quiz.ctx.currentQ = Questions[3]
    /\ Passed(Quiz) = {"team", "year"}
    /\ NoneCorrect(Quiz.ctx.answerForm)
    /\ Quiz.ctx.answerForm.team.answer = answers(Quiz.ctx.quiz).team

\* --- the end of the pool
\* Every entry of data has been served.
Exhausted(Q) == pool(Q) = {}

\* C39: a createQuiz called when every entry of data has been served pushes
\* undefined, sets quiz to undefined and leaves the answer form as
\* resetAnswerForm made it, with no answer stored; the pool stays empty and
\* quiz stays undefined in every later step, whatever handler runs; and once
\* Quiz has been patched after the failure the block, the Players and the
\* Input are gone.
C39_PoolExhausted ==
    /\ []((Quiz.ctx.quiz = NoQuiz /\ Quiz.dirty = 0) => BranchGone)
    /\ [][/\ Exhausted(Quiz) => Exhausted(Quiz')
          /\ (Exhausted(Quiz) /\ Quiz.ctx.quiz = NoQuiz) => Quiz'.ctx.quiz = NoQuiz
          /\ (Exhausted(Quiz) /\ Len(Quiz'.answeredPool) > Len(Quiz.answeredPool)) =>
                /\ Quiz'.answeredPool = Append(Quiz.answeredPool, NoQuiz)
                /\ Quiz'.ctx.quiz = NoQuiz
                /\ Quiz'.ctx.answerForm = defaultAnswerForm
                /\ BitAnd(Quiz'.dirty, 2) = 2
          /\ (Quiz.ctx.quiz = NoQuiz /\ if_block.exists /\ Quiz'.dirty = 0) =>
                /\ BranchGone'
                /\ last_p'.frag = "Quiz"
                /\ last_p'.frags = NumPlayers + 2]_vars

\* C39 witness: createQuiz has failed twice, Quiz has been patched since, and
\* nothing of the quiz block is left.
C39_Witness ==
    /\ Exhausted(Quiz)
    /\ Len(Quiz.answeredPool) = NumQuizzes + 2
    /\ Quiz.ctx.quiz = NoQuiz
    /\ Quiz.dirty = 0
    /\ BranchGone

====
